---- MODULE Spec2Model ----
(***************************************************************************)
(* Relevance-scoring engine of the resume/JD matcher:                      *)
(*   backend/models/feature_engineering.py  (FeatureEngineer)              *)
(*   backend/models/relevance_scorer.py     (RelevanceScorer)              *)
(*                                                                         *)
(* Scores are Python floats in the source.  They are modelled as exact     *)
(* rationals <<numerator, denominator>> in lowest terms, denominator > 0.  *)
(* Skill and education items are sequences of characters, so that          *)
(* str.lower() and the substring operator `in` are computed; texts are     *)
(* sequences of words (the empty sequence is the empty or blank text).     *)
(***************************************************************************)
EXTENDS Integers, Sequences, FiniteSets, TLC

VARIABLES
    sentence_model,     \* FeatureEngineer.sentence_model: TRUE when the encoder loaded
    embeddings_cache,   \* FeatureEngineer.embeddings_cache: hash(text) -> embedding
    openai_api_key,     \* RelevanceScorer.openai_api_key: TRUE when a credential is configured
    matching_results,   \* the rows of the matching_results table, in insertion order
    resumes,            \* the rows of the resumes table, in insertion order
    job_descriptions,   \* the rows of the job_descriptions table, in insertion order
    encoder_calls,      \* text -> number of sentence_model.encode(text) calls that returned
    contexts,           \* the get_embedding calls in progress, one per concurrent context
    call                \* the engine call in progress: its name, arguments and result

vars == <<sentence_model, embeddings_cache, openai_api_key, matching_results,
          resumes, job_descriptions, encoder_calls, contexts, call>>

\* Python's None.  Optional values are tuples, so that None compares with them:
\* an Optional[int] is None or Some(n), an embedding a pair, a pair a pair.
None == <<>>
Some(n) == <<n>>
Val(o) == o[1]

\* An assignment x = v followed by the statements Rest(x): v is computed once,
\* before the statements that read it.
Let(v, Rest(_)) == CHOOSE result \in {Rest(x) : x \in {v}} : TRUE

-----------------------------------------------------------------------------
(* Bounds of the model *)

\* longest skill / education list passed to a matcher
MaxList == 2
\* largest number of years of experience
MaxYears == 5
\* largest number of texts on which the encoder fails during one call
MaxFailing == 1
\* largest number of resumes, and of job descriptions, in one batch
MaxBatch == 2
\* largest number of pairs of one batch on which matching raises
MaxFailedPairs == 2

\* no get_embedding call starts once the encoder has returned MaxEncodes times for a text
MaxEncodes == 2
\* number of contexts calling get_embedding concurrently
MaxContexts == 2
\* largest id of a resume row and of a job description row
MaxId == 2
\* largest id of a matching result row
MaxResultId == 3

-----------------------------------------------------------------------------
(* Exact arithmetic standing for Python float arithmetic *)

Abs(n) == IF n < 0 THEN -n ELSE n

RECURSIVE GCD(_, _)
GCD(a, b) == IF b = 0 THEN a ELSE GCD(b, a % b)

\* the fraction n/d (d > 0) in lowest terms
Rat(n, d) == LET g == GCD(Abs(n), d) IN <<n \div g, d \div g>>

Zero == Rat(0, 1)
One == Rat(1, 1)

RAdd(a, b) == Rat(a[1] * b[2] + b[1] * a[2], a[2] * b[2])
RMul(a, b) == Rat(a[1] * b[1], a[2] * b[2])
RLe(a, b) == a[1] * b[2] <= b[1] * a[2]
RLt(a, b) == a[1] * b[2] < b[1] * a[2]
\* Python's min(a, b)
RMin(a, b) == IF RLe(a, b) THEN a ELSE b

RECURSIVE RSum(_)
RSum(s) == IF s = <<>> THEN Zero ELSE RAdd(Head(s), RSum(Tail(s)))

\* numpy.mean of a non-empty list of scores
Mean(s) == RMul(RSum(s), Rat(1, Len(s)))

-----------------------------------------------------------------------------
(* Strings: str.lower() and the substring test `a in b` *)

LowerMap ==
    [A |-> "a", B |-> "b", C |-> "c", D |-> "d", E |-> "e", F |-> "f", G |-> "g",
     H |-> "h", I |-> "i", J |-> "j", K |-> "k", L |-> "l", M |-> "m", N |-> "n",
     O |-> "o", P |-> "p", Q |-> "q", R |-> "r", S |-> "s", T |-> "t", U |-> "u",
     V |-> "v", W |-> "w", X |-> "x", Y |-> "y", Z |-> "z"]

\* str.lower()
Lower(s) == [i \in 1..Len(s) |-> IF s[i] \in DOMAIN LowerMap THEN LowerMap[s[i]] ELSE s[i]]

\* Python's `a in b` on strings: a occurs in b as a contiguous substring
IsSubstring(a, b) ==
    \E i \in 1..(Len(b) - Len(a) + 1) : SubSeq(b, i, i + Len(a) - 1) = a

-----------------------------------------------------------------------------
(* The skill and education items the matchers are exercised on *)

s_node == <<"n", "o", "d", "e">>
s_NodeJS == <<"N", "o", "d", "e", "J", "S">>
s_communication == <<"c", "o", "m", "m", "u", "n", "i", "c", "a", "t", "i", "o", "n">>
s_communication_skills == s_communication \o <<" ", "s", "k", "i", "l", "l", "s">>

SkillNames == {s_node, s_NodeJS, s_communication, s_communication_skills}

e_bachelor == <<"b", "a", "c", "h", "e", "l", "o", "r">>
e_Bachelor_of_Science ==
    <<"B", "a", "c", "h", "e", "l", "o", "r", " ", "o", "f", " ",
      "S", "c", "i", "e", "n", "c", "e">>
e_master == <<"m", "a", "s", "t", "e", "r">>

EducationNames == {e_bachelor, e_Bachelor_of_Science, e_master}

\* the lists of at most n items of S
ListsOf(S, n) == UNION {[1..k -> S] : k \in 0..n}

SkillLists == ListsOf(SkillNames, MaxList)

s_python == <<"p", "y", "t", "h", "o", "n">>
s_docker == <<"d", "o", "c", "k", "e", "r">>

\* the skill lists given to the gap analysis
GapSkillLists == SkillLists \cup {<<s_python>>, <<s_python, s_docker>>}
EducationLists == ListsOf(EducationNames, MaxList)

\* Optional[int] years of experience
Years == {None} \cup {Some(n) : n \in 0..MaxYears}

-----------------------------------------------------------------------------
(* fuzzywuzzy: the scorer and process.extractOne *)

\* utils.full_process on names made of letters and single spaces: lower-casing
full_process(s) == Lower(s)

\* fuzz.token_sort_ratio (0..100) of two names.  The names of SkillNames are
\* already in token order; the ratio of the processed names is
\* round(100 * 2M / T), T the sum of the lengths and M the matched characters:
\*   node / nodejs                          2*4/10   = 80
\*   communication / communication skills   2*13/33  = 79
\*   node / communication                   2*2/17   = 24
\*   node / communication skills            2*2/24   = 17
\*   nodejs / communication                 2*2/19   = 21
\*   nodejs / communication skills          2*3/26   = 23
RatioTable ==
    LET node == full_process(s_node)
        nodejs == full_process(s_NodeJS)
        comm == full_process(s_communication)
        skills == full_process(s_communication_skills)
    IN  [pair \in {{a, b} : a, b \in {node, nodejs, comm, skills}} |->
            CASE pair = {node, nodejs} -> 80
              [] pair = {comm, skills} -> 79
              [] pair = {node, comm} -> 24
              [] pair = {node, skills} -> 17
              [] pair = {nodejs, comm} -> 21
              [] pair = {nodejs, skills} -> 23
              [] OTHER -> 100]

token_sort_ratio(s1, s2) == RatioTable[{full_process(s1), full_process(s2)}]

\* process.extractOne(query, choices, scorer=fuzz.token_sort_ratio): the first
\* choice of highest score with its score, None when there is no choice
extractOne(query, choices) ==
    IF choices = <<>> THEN None
    ELSE Let([i \in 1..Len(choices) |-> token_sort_ratio(query, choices[i])], LAMBDA score :
             LET best == CHOOSE i \in 1..Len(choices) :
                            /\ \A j \in 1..Len(choices) : score[j] <= score[i]
                            /\ \A j \in 1..(i - 1) : score[j] < score[i]
             IN  <<choices[best], score[best]>>)

-----------------------------------------------------------------------------
(* FeatureEngineer: the hard matchers *)

\* the test `best_match and best_match[1] >= 80` of hard_match_skills
M_IsSkillMatch(best_match) == best_match # None /\ best_match[2] > 80
IsSkillMatch(best_match) == best_match # None /\ best_match[2] >= 80

\* the for loop of hard_match_skills from position i on: total_matches
RECURSIVE SkillMatchLoop(_, _, _)
SkillMatchLoop(resume_skills, jd_skills, i) ==
    IF i > Len(jd_skills) THEN 0
    ELSE (IF IsSkillMatch(extractOne(jd_skills[i], resume_skills)) THEN 1 ELSE 0)
         + SkillMatchLoop(resume_skills, jd_skills, i + 1)

hard_match_skills(resume_skills, jd_skills) ==
    IF resume_skills = <<>> \/ jd_skills = <<>> THEN Zero
    ELSE LET total_matches == SkillMatchLoop(resume_skills, jd_skills, 1)
             total_jd_skills == Len(jd_skills)
         IN  IF total_jd_skills > 0 THEN Rat(total_matches, total_jd_skills) ELSE Zero

\* the inner loop without its break: every hit is counted
RECURSIVE M_EducationInnerLoop(_, _, _)
M_EducationInnerLoop(jd_edu, resume_edu_lower, j) ==
    IF j > Len(resume_edu_lower) THEN 0
    ELSE (IF IsSubstring(jd_edu, resume_edu_lower[j])
             \/ IsSubstring(resume_edu_lower[j], jd_edu)
          THEN 1 ELSE 0)
         + M_EducationInnerLoop(jd_edu, resume_edu_lower, j + 1)

\* the inner loop of hard_match_education over the resume items from j on:
\* 1 at the first hit (matches += 1; break), 0 when the loop runs out
RECURSIVE EducationInnerLoop(_, _, _)
EducationInnerLoop(jd_edu, resume_edu_lower, j) ==
    IF j > Len(resume_edu_lower) THEN 0
    ELSE IF IsSubstring(jd_edu, resume_edu_lower[j])
            \/ IsSubstring(resume_edu_lower[j], jd_edu)
         THEN 1
         ELSE EducationInnerLoop(jd_edu, resume_edu_lower, j + 1)

\* the outer loop of hard_match_education from position i on: matches
RECURSIVE EducationMatchLoop(_, _, _)
EducationMatchLoop(resume_edu_lower, jd_edu_lower, i) ==
    IF i > Len(jd_edu_lower) THEN 0
    ELSE EducationInnerLoop(jd_edu_lower[i], resume_edu_lower, 1)
         + EducationMatchLoop(resume_edu_lower, jd_edu_lower, i + 1)

hard_match_education(resume_education, jd_education) ==
    IF resume_education = <<>> \/ jd_education = <<>> THEN Zero
    ELSE LET resume_edu_lower == [i \in 1..Len(resume_education) |-> Lower(resume_education[i])]
             jd_edu_lower == [i \in 1..Len(jd_education) |-> Lower(jd_education[i])]
             matches == EducationMatchLoop(resume_edu_lower, jd_edu_lower, 1)
         IN  IF jd_education # <<>> THEN Rat(matches, Len(jd_education)) ELSE Zero

\* Python's a / b on ints: a float, or ZeroDivisionError raised
ZeroDivisionError == <<"ZeroDivisionError">>
TrueDiv(a, b) == IF b = 0 THEN ZeroDivisionError ELSE Rat(a, b)

\* the ratio returned without the test that caps it at 1.0
M_hard_match_experience(resume_years, jd_years) ==
    IF resume_years = None \/ jd_years = None THEN Zero
    ELSE IF Val(jd_years) = 0 THEN One
    ELSE TrueDiv(Val(resume_years), Val(jd_years))

hard_match_experience(resume_years, jd_years) ==
    IF resume_years = None \/ jd_years = None THEN Zero
    ELSE IF Val(resume_years) >= Val(jd_years) THEN One
    ELSE TrueDiv(Val(resume_years), Val(jd_years))

-----------------------------------------------------------------------------
(* Texts and the TF-IDF keyword matcher *)

t_python == <<"python", "developer", "with", "django">>
t_java == <<"java", "developer">>
t_chef == <<"pastry", "chef">>
\* the empty or blank text
t_blank == <<>>

Texts == {t_blank, t_python, t_java, t_chef}

\* the words of Texts that are in scikit-learn's English stop word list
StopWords == {"with"}

\* str.strip() is empty
IsBlank(text) == text = <<>>

\* the analyzer of TfidfVectorizer(stop_words='english', ngram_range=(1, 2)):
\* the text's tokens without the stop words, and the terms they give
Tokens(text) == SelectSeq(text, LAMBDA w : w \notin StopWords)
Unigrams(text) == {<<Tokens(text)[i]>> : i \in 1..Len(Tokens(text))}
Bigrams(text) ==
    {<<Tokens(text)[i], Tokens(text)[i + 1]>> : i \in 1..(Len(Tokens(text)) - 1)}
Terms(text) == Unigrams(text) \cup Bigrams(text)

\* the terms of each text of Texts
TermsOf == [text \in Texts |-> Terms(text)]

\* the number of occurrences of a term in a text
TermCount(term, text) ==
    LET tok == Tokens(text)
    IN  Cardinality({i \in 1..(Len(tok) - Len(term) + 1) :
                        SubSeq(tok, i, i + Len(term) - 1) = term})

RECURSIVE SumOver(_, _)
SumOver(S, f) ==
    IF S = {} THEN 0
    ELSE LET k == CHOOSE k \in S : TRUE IN f[k] + SumOver(S \ {k}, f)

Dot(u, v) == SumOver(DOMAIN u, [k \in DOMAIN u |-> u[k] * v[k]])

\* the square root of a perfect square
ISqrt(n) == CHOOSE r \in 0..n : r * r = n

\* sklearn cosine_similarity of two vectors over the same index set; rows of
\* zero dot product (a zero row among them) give 0
cosine_similarity(u, v) ==
    LET d == Dot(u, v)
    IN  IF d = 0 THEN Zero ELSE Rat(d, ISqrt(Dot(u, u)) * ISqrt(Dot(v, v)))

\* TfidfVectorizer(min_df=1, max_df=0.95).fit_transform on the two documents:
\* a term is kept when 1 <= df <= 0.95 * 2.  Every kept term has the same
\* document frequency, hence the same idf, so the rows are the term counts up
\* to a common factor, which the cosine ignores.
hard_match_keywords(resume_text, jd_text) ==
    LET combined_texts == <<resume_text, jd_text>>
        all_terms == TermsOf[resume_text] \cup TermsOf[jd_text]
        df(term) == Cardinality({i \in 1..2 : term \in TermsOf[combined_texts[i]]})
        vocabulary == {term \in all_terms : df(term) >= 1 /\ 100 * df(term) <= 95 * 2}
        row(text) == [term \in vocabulary |-> TermCount(term, text)]
    IN  IF vocabulary = {} THEN Zero    \* ValueError, caught: return 0.0
        ELSE cosine_similarity(row(resume_text), row(jd_text))

-----------------------------------------------------------------------------
(* FeatureEngineer: embeddings and the soft matchers *)

\* dict.get(key, default)
Get(d, key, default) == IF key \in DOMAIN d THEN d[key] ELSE default

\* the empty dict
EmptyDict == <<>>

\* hash(text), the key of the cache: distinct for the texts of Texts
hash(text) ==
    CASE text = t_python -> 4
      [] text = t_java -> 2
      [] text = t_chef -> 7
      [] text = t_blank -> 0

\* sentence_model.encode(text): the embedding of a text.  The vectors have
\* length 25, so the cosine of two of them is their dot product over 625:
\*   python/java 3/5, java/chef 3/5, python/chef -7/25
Encode(text) ==
    CASE text = t_python -> <<25, 0>>
      [] text = t_java -> <<15, 20>>
      [] text = t_chef -> <<-7, 24>>

\* get_embedding run on the cache `cache`; `failing` are the texts on which
\* encode() raises during the call.  The embedding (or None), the cache left
\* and the texts for which encode() was called and returned.
\* get_embedding encoding the text without looking it up in the cache
M_get_embedding(cache, text, failing) ==
    IF ~sentence_model \/ IsBlank(text)
    THEN [embedding |-> None, cache |-> cache, encoded |-> <<>>]
    ELSE IF text \in failing
    THEN [embedding |-> None, cache |-> cache, encoded |-> <<>>]
    ELSE [embedding |-> Encode(text),
          cache |-> (hash(text) :> Encode(text)) @@ cache,
          encoded |-> <<text>>]

get_embedding(cache, text, failing) ==
    IF ~sentence_model \/ IsBlank(text)
    THEN [embedding |-> None, cache |-> cache, encoded |-> <<>>]
    ELSE LET text_hash == hash(text)
         IN  IF text_hash \in DOMAIN cache
             THEN [embedding |-> cache[text_hash], cache |-> cache, encoded |-> <<>>]
             ELSE IF text \in failing
             THEN [embedding |-> None, cache |-> cache, encoded |-> <<>>]
             ELSE [embedding |-> Encode(text),
                   cache |-> (text_hash :> Encode(text)) @@ cache,
                   encoded |-> <<text>>]

\* soft_match_semantic answering a neutral 0.5 when an embedding is missing
M_soft_match_semantic(cache, resume_text, jd_text, failing) ==
    Let(get_embedding(cache, resume_text, failing), LAMBDA r :
    Let(get_embedding(r.cache, jd_text, failing), LAMBDA j :
        [value |-> IF r.embedding = None \/ j.embedding = None THEN Rat(1, 2)
                   ELSE cosine_similarity(r.embedding, j.embedding),
         cache |-> j.cache]))

\* soft_match_semantic: the similarity and the cache left
soft_match_semantic(cache, resume_text, jd_text, failing) ==
    Let(get_embedding(cache, resume_text, failing), LAMBDA r :
    Let(get_embedding(r.cache, jd_text, failing), LAMBDA j :
        [value |-> IF r.embedding = None \/ j.embedding = None THEN Zero
                   ELSE cosine_similarity(r.embedding, j.embedding),
         cache |-> j.cache]))

relevant_sections == <<"experience", "skills", "education">>

\* the for loop of soft_match_sections from position i on, with the scores
\* collected so far: section_scores and the cache left
RECURSIVE SectionLoop(_, _, _, _, _, _)
SectionLoop(cache, resume_sections, jd_sections, failing, i, section_scores) ==
    IF i > Len(relevant_sections)
    THEN [section_scores |-> section_scores, cache |-> cache]
    ELSE LET section == relevant_sections[i]
         IN  IF section \in DOMAIN resume_sections /\ section \in DOMAIN jd_sections
             THEN Let(soft_match_semantic(cache, resume_sections[section],
                                          jd_sections[section], failing), LAMBDA score :
                      SectionLoop(score.cache, resume_sections, jd_sections, failing,
                                  i + 1, Append(section_scores, score.value)))
             ELSE SectionLoop(cache, resume_sections, jd_sections, failing,
                              i + 1, section_scores)

\* the sum of the section scores divided by the number of relevant sections
M_soft_match_sections(cache, resume_sections, jd_sections, failing) ==
    IF DOMAIN resume_sections = {} \/ DOMAIN jd_sections = {}
    THEN [value |-> Zero, cache |-> cache]
    ELSE Let(SectionLoop(cache, resume_sections, jd_sections, failing, 1, <<>>), LAMBDA loop :
             [value |-> IF loop.section_scores # <<>>
                        THEN RMul(RSum(loop.section_scores), Rat(1, Len(relevant_sections)))
                        ELSE Zero,
              cache |-> loop.cache])

soft_match_sections(cache, resume_sections, jd_sections, failing) ==
    IF DOMAIN resume_sections = {} \/ DOMAIN jd_sections = {}
    THEN [value |-> Zero, cache |-> cache]
    ELSE Let(SectionLoop(cache, resume_sections, jd_sections, failing, 1, <<>>), LAMBDA loop :
             [value |-> IF loop.section_scores # <<>> THEN Mean(loop.section_scores)
                        ELSE Zero,
              cache |-> loop.cache])

\* the weights of the overall and the section-wise similarity
soft_weights == [overall |-> Rat(7, 10), section |-> Rat(3, 10)]

\* the two similarities weighted equally
M_calculate_soft_match_score(cache, resume_data, jd_data, failing) ==
    Let(soft_match_semantic(cache, Get(resume_data, "cleaned_text", t_blank),
                            Get(jd_data, "cleaned_text", t_blank), failing),
        LAMBDA overall_score :
    Let(soft_match_sections(overall_score.cache, Get(resume_data, "sections", EmptyDict),
                            Get(jd_data, "sections", EmptyDict), failing),
        LAMBDA section_score :
        [value |-> RAdd(RMul(Rat(5, 10), overall_score.value),
                        RMul(Rat(5, 10), section_score.value)),
         cache |-> section_score.cache]))

calculate_soft_match_score(cache, resume_data, jd_data, failing) ==
    Let(soft_match_semantic(cache, Get(resume_data, "cleaned_text", t_blank),
                            Get(jd_data, "cleaned_text", t_blank), failing),
        LAMBDA overall_score :
    Let(soft_match_sections(overall_score.cache, Get(resume_data, "sections", EmptyDict),
                            Get(jd_data, "sections", EmptyDict), failing),
        LAMBDA section_score :
        [value |-> RAdd(RMul(soft_weights.overall, overall_score.value),
                        RMul(soft_weights.section, section_score.value)),
         cache |-> section_score.cache]))

-----------------------------------------------------------------------------
(* FeatureEngineer: the aggregate scores *)

\* the hard-match weights with skills at 0.5
M_weights ==
    [skills |-> Rat(5, 10), education |-> Rat(2, 10),
     experience |-> Rat(2, 10), keywords |-> Rat(2, 10)]

\* the weights of calculate_hard_match_score
weights ==
    [skills |-> Rat(4, 10), education |-> Rat(2, 10),
     experience |-> Rat(2, 10), keywords |-> Rat(2, 10)]

\* the weights of the hard and the soft score in the final score
final_weights == [hard |-> Rat(6, 10), soft |-> Rat(4, 10)]

\* the four matchers weighted equally
M_calculate_hard_match_score(resume_data, jd_data) ==
    RMin(RMul(Rat(1, 4),
              RSum(<<hard_match_skills(Get(resume_data, "skills", <<>>),
                                       Get(jd_data, "skills", <<>>)),
                     hard_match_education(Get(resume_data, "education", <<>>),
                                          Get(jd_data, "education", <<>>)),
                     hard_match_experience(Get(resume_data, "experience_years", None),
                                           Get(jd_data, "experience_years", None)),
                     hard_match_keywords(Get(resume_data, "cleaned_text", t_blank),
                                         Get(jd_data, "cleaned_text", t_blank))>>)),
         One)

\* the hard score with years of experience defaulting to 0 when the key is absent
M_calculate_hard_match_score_default(resume_data, jd_data) ==
    RMin(RSum(<<RMul(Rat(4, 10), hard_match_skills(Get(resume_data, "skills", <<>>),
                                                   Get(jd_data, "skills", <<>>))),
                RMul(Rat(2, 10), hard_match_education(Get(resume_data, "education", <<>>),
                                                      Get(jd_data, "education", <<>>))),
                RMul(Rat(2, 10),
                     hard_match_experience(Get(resume_data, "experience_years", Some(0)),
                                           Get(jd_data, "experience_years", Some(0)))),
                RMul(Rat(2, 10), hard_match_keywords(Get(resume_data, "cleaned_text", t_blank),
                                                     Get(jd_data, "cleaned_text", t_blank)))>>),
         One)

calculate_hard_match_score(resume_data, jd_data) ==
    LET keys == <<"skills", "education", "experience", "keywords">>
    IN  Let([skills |-> hard_match_skills(Get(resume_data, "skills", <<>>),
                                          Get(jd_data, "skills", <<>>)),
             education |-> hard_match_education(Get(resume_data, "education", <<>>),
                                                Get(jd_data, "education", <<>>)),
             experience |-> hard_match_experience(Get(resume_data, "experience_years", None),
                                                  Get(jd_data, "experience_years", None)),
             keywords |-> hard_match_keywords(Get(resume_data, "cleaned_text", t_blank),
                                              Get(jd_data, "cleaned_text", t_blank))],
            LAMBDA scores :
        Let(RSum([i \in 1..Len(keys) |-> RMul(weights[keys[i]], scores[keys[i]])]),
            LAMBDA total_score :
            RMin(total_score, One)))

\* the final score with the two weights exchanged
M_calculate_final_score(cache, resume_data, jd_data, failing) ==
    Let(calculate_hard_match_score(resume_data, jd_data), LAMBDA hard_score :
    Let(calculate_soft_match_score(cache, resume_data, jd_data, failing), LAMBDA soft_score :
    Let(RAdd(RMul(Rat(4, 10), hard_score), RMul(Rat(6, 10), soft_score.value)),
        LAMBDA final_score :
        [value |-> [hard_match_score |-> hard_score,
                    soft_match_score |-> soft_score.value,
                    final_score |-> final_score,
                    relevance_percentage |-> RMul(final_score, Rat(100, 1))],
         cache |-> soft_score.cache])))

\* calculate_final_score: the dict returned and the cache left
calculate_final_score(cache, resume_data, jd_data, failing) ==
    Let(calculate_hard_match_score(resume_data, jd_data), LAMBDA hard_score :
    Let(calculate_soft_match_score(cache, resume_data, jd_data, failing), LAMBDA soft_score :
    Let(RAdd(RMul(final_weights.hard, hard_score),
             RMul(final_weights.soft, soft_score.value)),
        LAMBDA final_score :
        [value |-> [hard_match_score |-> hard_score,
                    soft_match_score |-> soft_score.value,
                    final_score |-> final_score,
                    relevance_percentage |-> RMul(final_score, Rat(100, 1))],
         cache |-> soft_score.cache])))

-----------------------------------------------------------------------------
(* RelevanceScorer *)

\* RelevanceScorer.thresholds
thresholds == [high |-> Rat(75, 100), medium |-> Rat(50, 100), low |-> Rat(25, 100)]

\* the classifier with strict comparisons
M_calculate_relevance_score(feature_scores) ==
    LET final_score == Get(feature_scores, "final_score", Zero)
        verdict == IF RLt(thresholds.high, final_score) THEN "High"
                   ELSE IF RLt(thresholds.medium, final_score) THEN "Medium"
                   ELSE "Low"
    IN  [relevance_score |-> RMul(final_score, Rat(100, 1)),
         verdict |-> verdict,
         hard_match_score |-> Get(feature_scores, "hard_match_score", Zero),
         soft_match_score |-> Get(feature_scores, "soft_match_score", Zero),
         final_score |-> final_score]

calculate_relevance_score(feature_scores) ==
    LET final_score == Get(feature_scores, "final_score", Zero)
        relevance_percentage == RMul(final_score, Rat(100, 1))
        verdict == IF RLe(thresholds.high, final_score) THEN "High"
                   ELSE IF RLe(thresholds.medium, final_score) THEN "Medium"
                   ELSE "Low"
    IN  [relevance_score |-> relevance_percentage,
         verdict |-> verdict,
         hard_match_score |-> Get(feature_scores, "hard_match_score", Zero),
         soft_match_score |-> Get(feature_scores, "soft_match_score", Zero),
         final_score |-> final_score]

\* the inner loop with containment tested in one direction only
RECURSIVE M_SkillFoundLoop(_, _, _)
M_SkillFoundLoop(jd_skill_lower, resume_skills, j) ==
    IF j > Len(resume_skills) THEN FALSE
    ELSE IF IsSubstring(jd_skill_lower, Lower(resume_skills[j])) THEN TRUE
    ELSE M_SkillFoundLoop(jd_skill_lower, resume_skills, j + 1)

\* the inner loop of identify_missing_skills over the resume skills from j on: found
RECURSIVE SkillFoundLoop(_, _, _)
SkillFoundLoop(jd_skill_lower, resume_skills, j) ==
    IF j > Len(resume_skills) THEN FALSE
    ELSE LET resume_skill_lower == Lower(resume_skills[j])
         IN  IF \/ jd_skill_lower = resume_skill_lower
                \/ IsSubstring(jd_skill_lower, resume_skill_lower)
                \/ IsSubstring(resume_skill_lower, jd_skill_lower)
             THEN TRUE
             ELSE SkillFoundLoop(jd_skill_lower, resume_skills, j + 1)

\* the outer loop of identify_missing_skills from position i on
RECURSIVE MissingSkillsLoop(_, _, _, _)
MissingSkillsLoop(resume_skills, jd_skills, i, missing_skills) ==
    IF i > Len(jd_skills) THEN missing_skills
    ELSE LET found == SkillFoundLoop(Lower(jd_skills[i]), resume_skills, 1)
         IN  MissingSkillsLoop(resume_skills, jd_skills, i + 1,
                               IF ~found THEN Append(missing_skills, jd_skills[i])
                               ELSE missing_skills)

identify_missing_skills(resume_skills, jd_skills) ==
    MissingSkillsLoop(resume_skills, jd_skills, 1, <<>>)

\* the inner loop of identify_missing_education over the resume items from j on: found
RECURSIVE EducationFoundLoop(_, _, _)
EducationFoundLoop(jd_edu_lower, resume_education, j) ==
    IF j > Len(resume_education) THEN FALSE
    ELSE LET resume_edu_lower == Lower(resume_education[j])
         IN  IF \/ IsSubstring(jd_edu_lower, resume_edu_lower)
                \/ IsSubstring(resume_edu_lower, jd_edu_lower)
             THEN TRUE
             ELSE EducationFoundLoop(jd_edu_lower, resume_education, j + 1)

\* the outer loop of identify_missing_education from position i on
RECURSIVE MissingEducationLoop(_, _, _, _)
MissingEducationLoop(resume_education, jd_education, i, missing_education) ==
    IF i > Len(jd_education) THEN missing_education
    ELSE LET found == EducationFoundLoop(Lower(jd_education[i]), resume_education, 1)
         IN  MissingEducationLoop(resume_education, jd_education, i + 1,
                                  IF ~found THEN Append(missing_education, jd_education[i])
                                  ELSE missing_education)

identify_missing_education(resume_education, jd_education) ==
    MissingEducationLoop(resume_education, jd_education, 1, <<>>)

\* str(n) of an f-string: the decimal digits of an int
str(n) == ToString(n)

\* check_experience_gap with meets_requirement computed by a strict comparison
M_check_experience_gap(resume_years, jd_years) ==
    IF resume_years = None \/ jd_years = None
    THEN [gap |-> 0, meets_requirement |-> TRUE,
          message |-> <<"Experience requirements not specified">>]
    ELSE LET gap == Val(jd_years) - Val(resume_years)
             meets_requirement == Val(resume_years) > Val(jd_years)
             message == IF gap > 0 THEN <<"Missing ", str(gap), " years of experience">>
                        ELSE IF gap = 0 THEN <<"Meets experience requirement exactly">>
                        ELSE <<"Exceeds requirement by ", str(Abs(gap)), " years">>
         IN  [gap |-> gap, meets_requirement |-> meets_requirement, message |-> message]

\* check_experience_gap interpolating gap where the code interpolates abs(gap)
M_check_experience_gap_signed(resume_years, jd_years) ==
    IF resume_years = None \/ jd_years = None
    THEN [gap |-> 0, meets_requirement |-> TRUE,
          message |-> <<"Experience requirements not specified">>]
    ELSE LET gap == Val(jd_years) - Val(resume_years)
             meets_requirement == Val(resume_years) >= Val(jd_years)
             message == IF gap > 0 THEN <<"Missing ", str(gap), " years of experience">>
                        ELSE IF gap = 0 THEN <<"Meets experience requirement exactly">>
                        ELSE <<"Exceeds requirement by ", str(gap), " years">>
         IN  [gap |-> gap, meets_requirement |-> meets_requirement, message |-> message]

\* check_experience_gap.  A string built by an f-string or by join is the
\* sequence of its pieces: literals, the digits of a count, the characters of
\* an item.
check_experience_gap(resume_years, jd_years) ==
    IF resume_years = None \/ jd_years = None
    THEN [gap |-> 0, meets_requirement |-> TRUE,
          message |-> <<"Experience requirements not specified">>]
    ELSE LET gap == Val(jd_years) - Val(resume_years)
             meets_requirement == Val(resume_years) >= Val(jd_years)
             message == IF gap > 0 THEN <<"Missing ", str(gap), " years of experience">>
                        ELSE IF gap = 0 THEN <<"Meets experience requirement exactly">>
                        ELSE <<"Exceeds requirement by ", str(Abs(gap)), " years">>
         IN  [gap |-> gap, meets_requirement |-> meets_requirement, message |-> message]

\* sep.join(items): the pieces of the items, sep between two consecutive items
RECURSIVE join(_, _)
join(sep, items) ==
    IF items = <<>> THEN <<>>
    ELSE IF Len(items) = 1 THEN items[1]
    ELSE items[1] \o <<sep>> \o join(sep, Tail(items))

\* the slice l[:n]
Slice(l, n) == SubSeq(l, 1, IF Len(l) < n THEN Len(l) ELSE n)

\* the general advice _generate_basic_feedback appends, chosen by the score band
general_advice(scores) ==
    LET relevance_score == Get(scores, "relevance_score", Zero)
    IN  IF RLt(relevance_score, Rat(50, 1))
        THEN <<"Focus on aligning your skills and experience more closely with the job requirements">>
        ELSE IF RLt(relevance_score, Rat(75, 1))
        THEN <<"Good match overall, but there's room for improvement in specific areas">>
        ELSE <<"Strong match! Consider highlighting your most relevant achievements">>

\* the template feedback with the education clause placed before the experience clause
M_generate_basic_feedback(resume_data, jd_data, scores) ==
    LET missing_skills == identify_missing_skills(Get(resume_data, "skills", <<>>),
                                                  Get(jd_data, "skills", <<>>))
        exp_gap == check_experience_gap(Get(resume_data, "experience_years", None),
                                        Get(jd_data, "experience_years", None))
        missing_education == identify_missing_education(Get(resume_data, "education", <<>>),
                                                        Get(jd_data, "education", <<>>))
        parts1 == IF missing_skills # <<>>
                  THEN << <<"Consider adding these skills: ">>
                          \o join(", ", Slice(missing_skills, 3)) >>
                  ELSE <<>>
        parts2 == IF missing_education # <<>>
                  THEN Append(parts1, <<"Consider highlighting relevant education: ">>
                                      \o join(", ", missing_education))
                  ELSE parts1
        parts3 == IF ~exp_gap.meets_requirement
                  THEN Append(parts2, exp_gap.message)
                  ELSE parts2
        feedback_parts == Append(parts3, general_advice(scores))
    IN  join(". ", feedback_parts) \o <<".">>

\* _generate_basic_feedback: feedback_parts after each of the four steps, joined
generate_basic_feedback(resume_data, jd_data, scores) ==
    LET missing_skills == identify_missing_skills(Get(resume_data, "skills", <<>>),
                                                  Get(jd_data, "skills", <<>>))
        exp_gap == check_experience_gap(Get(resume_data, "experience_years", None),
                                        Get(jd_data, "experience_years", None))
        missing_education == identify_missing_education(Get(resume_data, "education", <<>>),
                                                        Get(jd_data, "education", <<>>))
        parts1 == IF missing_skills # <<>>
                  THEN << <<"Consider adding these skills: ">>
                          \o join(", ", Slice(missing_skills, 3)) >>
                  ELSE <<>>
        parts2 == IF ~exp_gap.meets_requirement
                  THEN Append(parts1, exp_gap.message)
                  ELSE parts1
        parts3 == IF missing_education # <<>>
                  THEN Append(parts2, <<"Consider highlighting relevant education: ">>
                                      \o join(", ", missing_education))
                  ELSE parts2
        feedback_parts == Append(parts3, general_advice(scores))
    IN  join(". ", feedback_parts) \o <<".">>

\* what happens inside the try block of generate_llm_feedback: building the
\* prompt raises, the request raises, the response has no choices[0].message
\* content, or the generator answers
LLMOutcomes == {"prompt_raises", "request_raises", "response_malformed", "completed"}

\* response.choices[0].message.content.strip() of a completed request
llm_content == <<"Lead with your Django projects and add a cloud certification">>

\* generate_llm_feedback whose except clause lets a malformed response through
M_generate_llm_feedback(resume_data, jd_data, scores, llm) ==
    IF ~openai_api_key
    THEN [feedback |-> generate_basic_feedback(resume_data, jd_data, scores), requests |-> 0]
    ELSE IF llm = "prompt_raises"
    THEN [feedback |-> generate_basic_feedback(resume_data, jd_data, scores), requests |-> 0]
    ELSE IF llm = "request_raises"
    THEN [feedback |-> generate_basic_feedback(resume_data, jd_data, scores), requests |-> 1]
    ELSE IF llm = "response_malformed"
    THEN [feedback |-> <<"IndexError">>, requests |-> 1]
    ELSE [feedback |-> llm_content, requests |-> 1]

\* generate_llm_feedback: the feedback returned and the number of requests
\* sent to the external generator
generate_llm_feedback(resume_data, jd_data, scores, llm) ==
    IF ~openai_api_key
    THEN [feedback |-> generate_basic_feedback(resume_data, jd_data, scores), requests |-> 0]
    ELSE IF llm = "prompt_raises"
    THEN [feedback |-> generate_basic_feedback(resume_data, jd_data, scores), requests |-> 0]
    ELSE IF llm \in {"request_raises", "response_malformed"}
    THEN [feedback |-> generate_basic_feedback(resume_data, jd_data, scores), requests |-> 1]
    ELSE [feedback |-> llm_content, requests |-> 1]

\* the inner loop of _identify_strengths from position j on: the first
\* candidate skill that contains or is contained in jd_skill, None when none is
RECURSIVE MatchingSkillInnerLoop(_, _, _)
MatchingSkillInnerLoop(jd_skill, resume_skills, j) ==
    IF j > Len(resume_skills) THEN None
    ELSE IF \/ IsSubstring(Lower(jd_skill), Lower(resume_skills[j]))
            \/ IsSubstring(Lower(resume_skills[j]), Lower(jd_skill))
    THEN Some(resume_skills[j])
    ELSE MatchingSkillInnerLoop(jd_skill, resume_skills, j + 1)

\* the outer loop of _identify_strengths from position i on
RECURSIVE MatchingSkillsLoop(_, _, _, _)
MatchingSkillsLoop(resume_skills, jd_skills, i, matching_skills) ==
    IF i > Len(jd_skills) THEN matching_skills
    ELSE LET hit == MatchingSkillInnerLoop(jd_skills[i], resume_skills, 1)
         IN  MatchingSkillsLoop(resume_skills, jd_skills, i + 1,
                                IF hit = None THEN matching_skills
                                ELSE Append(matching_skills, Val(hit)))

\* the truth value of an Optional[int]: None and 0 are false
Truthy(years) == years # None /\ Val(years) # 0

\* _identify_strengths
identify_strengths(resume_data, jd_data) ==
    LET matching_skills == MatchingSkillsLoop(Get(resume_data, "skills", <<>>),
                                              Get(jd_data, "skills", <<>>), 1, <<>>)
        strengths1 == IF matching_skills # <<>>
                      THEN << <<"Strong technical skills: ">>
                              \o join(", ", Slice(matching_skills, 3)) >>
                      ELSE <<>>
        resume_years == Get(resume_data, "experience_years", Some(0))
        jd_years == Get(jd_data, "experience_years", Some(0))
    IN  IF Truthy(resume_years) /\ Truthy(jd_years) /\ Val(resume_years) >= Val(jd_years)
        THEN Append(strengths1, <<"Meets experience requirement (",
                                  str(Val(resume_years)), " years)">>)
        ELSE strengths1

\* _identify_improvement_areas
identify_improvement_areas(resume_data, jd_data) ==
    LET missing_skills == identify_missing_skills(Get(resume_data, "skills", <<>>),
                                                  Get(jd_data, "skills", <<>>))
        areas1 == IF missing_skills # <<>>
                  THEN << <<"Develop missing skills: ">>
                          \o join(", ", Slice(missing_skills, 3)) >>
                  ELSE <<>>
        exp_gap == check_experience_gap(Get(resume_data, "experience_years", None),
                                        Get(jd_data, "experience_years", None))
    IN  IF ~exp_gap.meets_requirement THEN Append(areas1, exp_gap.message) ELSE areas1

\* generate_comprehensive_analysis: the dict returned and the number of
\* requests sent to the external generator
generate_comprehensive_analysis(resume_data, jd_data, feature_scores, llm) ==
    LET relevance_result == calculate_relevance_score(feature_scores)
        missing_skills == identify_missing_skills(Get(resume_data, "skills", <<>>),
                                                  Get(jd_data, "skills", <<>>))
        missing_education == identify_missing_education(Get(resume_data, "education", <<>>),
                                                        Get(jd_data, "education", <<>>))
        experience_analysis == check_experience_gap(Get(resume_data, "experience_years", None),
                                                    Get(jd_data, "experience_years", None))
        feedback == generate_llm_feedback(resume_data, jd_data, relevance_result, llm)
    IN  [value |-> [relevance_score |-> relevance_result.relevance_score,
                    verdict |-> relevance_result.verdict,
                    hard_match_score |-> relevance_result.hard_match_score,
                    soft_match_score |-> relevance_result.soft_match_score,
                    missing_skills |-> missing_skills,
                    missing_education |-> missing_education,
                    experience_analysis |-> experience_analysis,
                    feedback |-> feedback.feedback,
                    strengths |-> identify_strengths(resume_data, jd_data),
                    improvement_areas |-> identify_improvement_areas(resume_data, jd_data)],
         requests |-> feedback.requests]

-----------------------------------------------------------------------------
(* The simplified matcher: simple_matching of api.py and of main_simple.py *)

\* set(l) of a list
set(l) == {l[i] : i \in DOMAIN l}

\* the lists list(S) can be: the elements of S once each, in any order
Enumerations(S) ==
    {l \in [1..Cardinality(S) -> S] : \A i, j \in DOMAIN l : i # j => l[i] # l[j]}

\* round(x, ndigits) of a number x >= 0: the nearest multiple of 10^-ndigits,
\* a tie going to the even one
round(x, ndigits) ==
    LET scale == 10 ^ ndigits
        q == (x[1] * scale) \div x[2]
        rem == (x[1] * scale) % x[2]
        up == 2 * rem > x[2] \/ (2 * rem = x[2] /\ q % 2 = 1)
    IN  Rat(IF up THEN q + 1 ELSE q, scale)

\* the value of `d.get('experience_years', 0) or 0`
YearsOrZero(d) ==
    LET years == Get(d, "experience_years", Some(0))
    IN  IF years = None THEN 0 ELSE Val(years)

\* the weights of the final score of simple_matching
simple_weights ==
    [skill |-> Rat(4, 10), education |-> Rat(2, 10),
     experience |-> Rat(2, 10), keyword |-> Rat(2, 10)]

\* the two verdict cutoffs of simple_matching
simple_thresholds == [high |-> Rat(7, 10), medium |-> Rat(4, 10)]

\* simple_matching scoring 0.0 for experience when no years are required
M_simple_matching(resume_data, jd_data, list) ==
    LET resume_skills == set(Get(resume_data, "skills", <<>>))
        jd_skills == set(Get(jd_data, "skills", <<>>))
        skill_score ==
            IF jd_skills = {} THEN Zero
            ELSE Rat(Cardinality(resume_skills \cap jd_skills), Cardinality(jd_skills))
        resume_education == set(Get(resume_data, "education", <<>>))
        jd_education == set(Get(jd_data, "education", <<>>))
        education_score ==
            IF jd_education = {} THEN Zero
            ELSE Rat(Cardinality(resume_education \cap jd_education),
                     Cardinality(jd_education))
        resume_years == YearsOrZero(resume_data)
        jd_years == YearsOrZero(jd_data)
        experience_score ==
            IF jd_years = 0 THEN Zero
            ELSE IF resume_years >= jd_years THEN One
            ELSE Rat(resume_years, jd_years)
        resume_words == set(Get(resume_data, "cleaned_text", t_blank))
        jd_words == set(Get(jd_data, "cleaned_text", t_blank))
        keyword_score ==
            IF jd_words = {} THEN Zero
            ELSE Rat(Cardinality(resume_words \cap jd_words), Cardinality(jd_words))
        final_score ==
            RSum(<<RMul(simple_weights.skill, skill_score),
                   RMul(simple_weights.education, education_score),
                   RMul(simple_weights.experience, experience_score),
                   RMul(simple_weights.keyword, keyword_score)>>)
        verdict == IF RLe(simple_thresholds.high, final_score) THEN "High"
                   ELSE IF RLe(simple_thresholds.medium, final_score) THEN "Medium"
                   ELSE "Low"
        missing_skills == list[jd_skills \ resume_skills]
        missing_education == list[jd_education \ resume_education]
        exp_message ==
            IF jd_years > 0
            THEN IF resume_years >= jd_years
                 THEN <<"Meets experience requirement (", str(resume_years), " years)">>
                 ELSE <<"Missing ", str(jd_years - resume_years), " years of experience">>
            ELSE <<"No specific experience requirement">>
        parts1 == IF missing_skills # <<>>
                  THEN << <<"Consider adding these skills: ">>
                          \o join(", ", Slice(missing_skills, 3)) >>
                  ELSE <<>>
        parts2 == IF missing_education # <<>>
                  THEN Append(parts1, <<"Consider highlighting relevant education: ">>
                                      \o join(", ", missing_education))
                  ELSE parts1
        feedback_parts ==
            IF missing_skills = <<>> /\ missing_education = <<>>
            THEN Append(parts2,
                        <<"Good match! Skills and education align well with requirements.">>)
            ELSE parts2
        feedback == IF feedback_parts # <<>> THEN join(". ", feedback_parts) \o <<".">>
                    ELSE <<"No specific feedback available.">>
    IN  [relevance_score |-> round(final_score, 3),
         verdict |-> verdict,
         hard_match_score |-> round(skill_score, 3),
         soft_match_score |-> round(keyword_score, 3),
         missing_skills |-> missing_skills,
         missing_education |-> missing_education,
         experience_analysis |->
            [gap |-> IF jd_years - resume_years > 0 THEN jd_years - resume_years ELSE 0,
             meets_requirement |-> resume_years >= jd_years,
             message |-> exp_message],
         feedback |-> feedback,
         strengths |->
            IF resume_skills # {}
            THEN << <<"Strong technical skills: ">>
                    \o join(", ", Slice(list[resume_skills], 3)) >>
            ELSE <<>>,
         improvement_areas |->
            IF missing_skills # <<>>
            THEN << <<"Develop missing skills: ">> \o join(", ", Slice(missing_skills, 3)) >>
            ELSE <<>>]

\* simple_matching of api.py.  `list` gives the order in which list() enumerates
\* each of the three sets the function turns into a list
simple_matching(resume_data, jd_data, list) ==
    LET resume_skills == set(Get(resume_data, "skills", <<>>))
        jd_skills == set(Get(jd_data, "skills", <<>>))
        skill_score ==
            IF jd_skills = {} THEN Zero
            ELSE Rat(Cardinality(resume_skills \cap jd_skills), Cardinality(jd_skills))
        resume_education == set(Get(resume_data, "education", <<>>))
        jd_education == set(Get(jd_data, "education", <<>>))
        education_score ==
            IF jd_education = {} THEN Zero
            ELSE Rat(Cardinality(resume_education \cap jd_education),
                     Cardinality(jd_education))
        resume_years == YearsOrZero(resume_data)
        jd_years == YearsOrZero(jd_data)
        experience_score ==
            IF jd_years = 0 THEN Rat(1, 2)
            ELSE IF resume_years >= jd_years THEN One
            ELSE Rat(resume_years, jd_years)
        resume_words == set(Get(resume_data, "cleaned_text", t_blank))
        jd_words == set(Get(jd_data, "cleaned_text", t_blank))
        keyword_score ==
            IF jd_words = {} THEN Zero
            ELSE Rat(Cardinality(resume_words \cap jd_words), Cardinality(jd_words))
        final_score ==
            RSum(<<RMul(simple_weights.skill, skill_score),
                   RMul(simple_weights.education, education_score),
                   RMul(simple_weights.experience, experience_score),
                   RMul(simple_weights.keyword, keyword_score)>>)
        verdict == IF RLe(simple_thresholds.high, final_score) THEN "High"
                   ELSE IF RLe(simple_thresholds.medium, final_score) THEN "Medium"
                   ELSE "Low"
        missing_skills == list[jd_skills \ resume_skills]
        missing_education == list[jd_education \ resume_education]
        exp_message ==
            IF jd_years > 0
            THEN IF resume_years >= jd_years
                 THEN <<"Meets experience requirement (", str(resume_years), " years)">>
                 ELSE <<"Missing ", str(jd_years - resume_years), " years of experience">>
            ELSE <<"No specific experience requirement">>
        parts1 == IF missing_skills # <<>>
                  THEN << <<"Consider adding these skills: ">>
                          \o join(", ", Slice(missing_skills, 3)) >>
                  ELSE <<>>
        parts2 == IF missing_education # <<>>
                  THEN Append(parts1, <<"Consider highlighting relevant education: ">>
                                      \o join(", ", missing_education))
                  ELSE parts1
        feedback_parts ==
            IF missing_skills = <<>> /\ missing_education = <<>>
            THEN Append(parts2,
                        <<"Good match! Skills and education align well with requirements.">>)
            ELSE parts2
        feedback == IF feedback_parts # <<>> THEN join(". ", feedback_parts) \o <<".">>
                    ELSE <<"No specific feedback available.">>
    IN  [relevance_score |-> round(final_score, 3),
         verdict |-> verdict,
         hard_match_score |-> round(skill_score, 3),
         soft_match_score |-> round(keyword_score, 3),
         missing_skills |-> missing_skills,
         missing_education |-> missing_education,
         experience_analysis |->
            [gap |-> IF jd_years - resume_years > 0 THEN jd_years - resume_years ELSE 0,
             meets_requirement |-> resume_years >= jd_years,
             message |-> exp_message],
         feedback |-> feedback,
         strengths |->
            IF resume_skills # {}
            THEN << <<"Strong technical skills: ">>
                    \o join(", ", Slice(list[resume_skills], 3)) >>
            ELSE <<>>,
         improvement_areas |->
            IF missing_skills # <<>>
            THEN << <<"Develop missing skills: ">> \o join(", ", Slice(missing_skills, 3)) >>
            ELSE <<>>]

\* the method classifying with the cutoffs of RelevanceScorer
M_SimpleResumeRelevancePipeline_simple_matching(resume_data, jd_data, list) ==
    LET resume_skills == set(Get(resume_data, "skills", <<>>))
        jd_skills == set(Get(jd_data, "skills", <<>>))
        skill_score ==
            IF jd_skills = {} THEN Zero
            ELSE Rat(Cardinality(resume_skills \cap jd_skills), Cardinality(jd_skills))
        resume_education == set(Get(resume_data, "education", <<>>))
        jd_education == set(Get(jd_data, "education", <<>>))
        education_score ==
            IF jd_education = {} THEN Zero
            ELSE Rat(Cardinality(resume_education \cap jd_education),
                     Cardinality(jd_education))
        resume_years == YearsOrZero(resume_data)
        jd_years == YearsOrZero(jd_data)
        experience_score ==
            IF jd_years = 0 THEN Rat(1, 2)
            ELSE IF resume_years >= jd_years THEN One
            ELSE Rat(resume_years, jd_years)
        resume_words == set(Get(resume_data, "cleaned_text", t_blank))
        jd_words == set(Get(jd_data, "cleaned_text", t_blank))
        keyword_score ==
            IF jd_words = {} THEN Zero
            ELSE Rat(Cardinality(resume_words \cap jd_words), Cardinality(jd_words))
        final_score ==
            RSum(<<RMul(simple_weights.skill, skill_score),
                   RMul(simple_weights.education, education_score),
                   RMul(simple_weights.experience, experience_score),
                   RMul(simple_weights.keyword, keyword_score)>>)
        verdict == IF RLe(thresholds.high, final_score) THEN "High"
                   ELSE IF RLe(thresholds.medium, final_score) THEN "Medium"
                   ELSE "Low"
        missing_skills == list[jd_skills \ resume_skills]
        missing_education == list[jd_education \ resume_education]
        exp_message ==
            IF jd_years > 0
            THEN IF resume_years >= jd_years
                 THEN <<"Meets experience requirement (", str(resume_years), " years)">>
                 ELSE <<"Missing ", str(jd_years - resume_years), " years of experience">>
            ELSE <<"No specific experience requirement">>
        parts1 == IF missing_skills # <<>>
                  THEN << <<"Consider adding these skills: ">>
                          \o join(", ", Slice(missing_skills, 3)) >>
                  ELSE <<>>
        parts2 == IF missing_education # <<>>
                  THEN Append(parts1, <<"Consider highlighting relevant education: ">>
                                      \o join(", ", missing_education))
                  ELSE parts1
        feedback_parts ==
            IF missing_skills = <<>> /\ missing_education = <<>>
            THEN Append(parts2,
                        <<"Good match! Skills and education align well with requirements.">>)
            ELSE parts2
        feedback == IF feedback_parts # <<>> THEN join(". ", feedback_parts) \o <<".">>
                    ELSE <<"No specific feedback available.">>
    IN  [relevance_score |-> round(final_score, 3),
         verdict |-> verdict,
         hard_match_score |-> round(skill_score, 3),
         soft_match_score |-> round(keyword_score, 3),
         missing_skills |-> missing_skills,
         missing_education |-> missing_education,
         experience_analysis |->
            [gap |-> IF jd_years - resume_years > 0 THEN jd_years - resume_years ELSE 0,
             meets_requirement |-> resume_years >= jd_years,
             message |-> exp_message],
         feedback |-> feedback,
         strengths |->
            IF resume_skills # {}
            THEN << <<"Strong technical skills: ">>
                    \o join(", ", Slice(list[resume_skills], 3)) >>
            ELSE <<>>,
         improvement_areas |->
            IF missing_skills # <<>>
            THEN << <<"Develop missing skills: ">> \o join(", ", Slice(missing_skills, 3)) >>
            ELSE <<>>]

\* SimpleResumeRelevancePipeline.simple_matching of main_simple.py
SimpleResumeRelevancePipeline_simple_matching(resume_data, jd_data, list) ==
    LET resume_skills == set(Get(resume_data, "skills", <<>>))
        jd_skills == set(Get(jd_data, "skills", <<>>))
        skill_score ==
            IF jd_skills = {} THEN Zero
            ELSE Rat(Cardinality(resume_skills \cap jd_skills), Cardinality(jd_skills))
        resume_education == set(Get(resume_data, "education", <<>>))
        jd_education == set(Get(jd_data, "education", <<>>))
        education_score ==
            IF jd_education = {} THEN Zero
            ELSE Rat(Cardinality(resume_education \cap jd_education),
                     Cardinality(jd_education))
        resume_years == YearsOrZero(resume_data)
        jd_years == YearsOrZero(jd_data)
        experience_score ==
            IF jd_years = 0 THEN Rat(1, 2)
            ELSE IF resume_years >= jd_years THEN One
            ELSE Rat(resume_years, jd_years)
        resume_words == set(Get(resume_data, "cleaned_text", t_blank))
        jd_words == set(Get(jd_data, "cleaned_text", t_blank))
        keyword_score ==
            IF jd_words = {} THEN Zero
            ELSE Rat(Cardinality(resume_words \cap jd_words), Cardinality(jd_words))
        final_score ==
            RSum(<<RMul(simple_weights.skill, skill_score),
                   RMul(simple_weights.education, education_score),
                   RMul(simple_weights.experience, experience_score),
                   RMul(simple_weights.keyword, keyword_score)>>)
        verdict == IF RLe(simple_thresholds.high, final_score) THEN "High"
                   ELSE IF RLe(simple_thresholds.medium, final_score) THEN "Medium"
                   ELSE "Low"
        missing_skills == list[jd_skills \ resume_skills]
        missing_education == list[jd_education \ resume_education]
        exp_message ==
            IF jd_years > 0
            THEN IF resume_years >= jd_years
                 THEN <<"Meets experience requirement (", str(resume_years), " years)">>
                 ELSE <<"Missing ", str(jd_years - resume_years), " years of experience">>
            ELSE <<"No specific experience requirement">>
        parts1 == IF missing_skills # <<>>
                  THEN << <<"Consider adding these skills: ">>
                          \o join(", ", Slice(missing_skills, 3)) >>
                  ELSE <<>>
        parts2 == IF missing_education # <<>>
                  THEN Append(parts1, <<"Consider highlighting relevant education: ">>
                                      \o join(", ", missing_education))
                  ELSE parts1
        feedback_parts ==
            IF missing_skills = <<>> /\ missing_education = <<>>
            THEN Append(parts2,
                        <<"Good match! Skills and education align well with requirements.">>)
            ELSE parts2
        feedback == IF feedback_parts # <<>> THEN join(". ", feedback_parts) \o <<".">>
                    ELSE <<"No specific feedback available.">>
    IN  [relevance_score |-> round(final_score, 3),
         verdict |-> verdict,
         hard_match_score |-> round(skill_score, 3),
         soft_match_score |-> round(keyword_score, 3),
         missing_skills |-> missing_skills,
         missing_education |-> missing_education,
         experience_analysis |->
            [gap |-> IF jd_years - resume_years > 0 THEN jd_years - resume_years ELSE 0,
             meets_requirement |-> resume_years >= jd_years,
             message |-> exp_message],
         feedback |-> feedback,
         strengths |->
            IF resume_skills # {}
            THEN << <<"Strong technical skills: ">>
                    \o join(", ", Slice(list[resume_skills], 3)) >>
            ELSE <<>>,
         improvement_areas |->
            IF missing_skills # <<>>
            THEN << <<"Develop missing skills: ">> \o join(", ", Slice(missing_skills, 3)) >>
            ELSE <<>>]

-----------------------------------------------------------------------------
(* ResumeRelevancePipeline.run_matching and DatabaseManager.save_matching_result *)

\* the rowid SQLite gives a row inserted without one: 1 in an empty table,
\* else the largest rowid of the table plus 1
NextRowId(rows) ==
    IF rows = <<>> THEN 1
    ELSE 1 + (CHOOSE n \in {rows[i].id : i \in DOMAIN rows} :
                    \A i \in DOMAIN rows : rows[i].id <= n)

\* save_matching_result: the row inserted and cursor.lastrowid.  The row is
\* inserted beside the rows already there: no uniqueness constraint of the
\* table is declared in the sources.
save_matching_result(rows, resume_id, jd_id, analysis_result) ==
    LET lastrowid == NextRowId(rows)
    IN  [rows |-> Append(rows, [id |-> lastrowid, resume_id |-> resume_id, jd_id |-> jd_id,
                                relevance_score |-> analysis_result.relevance_score,
                                verdict |-> analysis_result.verdict,
                                hard_match_score |-> analysis_result.hard_match_score,
                                soft_match_score |-> analysis_result.soft_match_score,
                                missing_skills |-> Get(analysis_result, "missing_skills", <<>>),
                                missing_education |->
                                    Get(analysis_result, "missing_education", <<>>),
                                experience_analysis |->
                                    Get(analysis_result, "experience_analysis", EmptyDict),
                                feedback |-> Get(analysis_result, "feedback", <<>>),
                                strengths |-> Get(analysis_result, "strengths", <<>>),
                                improvement_areas |->
                                    Get(analysis_result, "improvement_areas", <<>>)]),
         lastrowid |-> lastrowid]

\* the body of the two loops for one pair.  `raises` tells what raises inside
\* the try block for the pairs of `failed`: "score" in calculate_final_score
\* before any embedding is computed, "analysis" in
\* generate_comprehensive_analysis, "save" in save_matching_result.  acc holds
\* the cache, the table, results, completed_matches and the pairs logged.
MatchPair(resume, jd, is_failed, raises, failing, acc) ==
    Let([acc EXCEPT !.log = Append(@, <<resume.file_name, jd.file_name>>)], LAMBDA logged :
        IF is_failed /\ raises = "score" THEN logged
        ELSE
        Let(calculate_final_score(logged.cache, resume.processed_data,
                                  jd.processed_data, failing), LAMBDA feature_scores :
            IF is_failed
            THEN [logged EXCEPT !.cache = feature_scores.cache]
            ELSE
            Let(generate_comprehensive_analysis(resume.processed_data, jd.processed_data,
                                                feature_scores.value, "completed").value,
                LAMBDA analysis_result :
            Let(save_matching_result(logged.rows, resume.id, jd.id, analysis_result),
                LAMBDA saved :
                [cache |-> feature_scores.cache,
                 rows |-> saved.rows,
                 results |-> Append(logged.results,
                                    [resume_name |-> resume.file_name,
                                     jd_name |-> jd.file_name,
                                     relevance_score |-> analysis_result.relevance_score,
                                     verdict |-> analysis_result.verdict,
                                     result_id |-> saved.lastrowid]),
                 completed_matches |-> logged.completed_matches + 1,
                 log |-> logged.log]))))

\* the inner loop with an except clause that breaks out of it
RECURSIVE M_JdLoop(_, _, _, _, _, _, _, _)
M_JdLoop(resume_processed, jd_processed, failed, raises, failing, i, j, acc) ==
    IF j > Len(jd_processed) THEN acc
    ELSE Let(MatchPair(resume_processed[i], jd_processed[j], <<i, j>> \in failed,
                       raises, failing, acc), LAMBDA next :
             IF <<i, j>> \in failed THEN next
             ELSE M_JdLoop(resume_processed, jd_processed, failed, raises, failing,
                           i, j + 1, next))

\* the inner loop, for jd in jd_processed, from position j on
RECURSIVE JdLoop(_, _, _, _, _, _, _, _)
JdLoop(resume_processed, jd_processed, failed, raises, failing, i, j, acc) ==
    IF j > Len(jd_processed) THEN acc
    ELSE Let(MatchPair(resume_processed[i], jd_processed[j], <<i, j>> \in failed,
                       raises, failing, acc), LAMBDA next :
             JdLoop(resume_processed, jd_processed, failed, raises, failing, i, j + 1, next))

\* the outer loop, for resume in resume_processed, from position i on
RECURSIVE ResumeLoop(_, _, _, _, _, _, _)
ResumeLoop(resume_processed, jd_processed, failed, raises, failing, i, acc) ==
    IF i > Len(resume_processed) THEN acc
    ELSE Let(JdLoop(resume_processed, jd_processed, failed, raises, failing, i, 1, acc),
             LAMBDA next :
             ResumeLoop(resume_processed, jd_processed, failed, raises, failing, i + 1, next))

\* run_matching: the state the two loops leave; `results` is returned
run_matching(cache, rows, resume_processed, jd_processed, failed, raises, failing) ==
    ResumeLoop(resume_processed, jd_processed, failed, raises, failing, 1,
               [cache |-> cache, rows |-> rows, results |-> <<>>,
                completed_matches |-> 0, log |-> <<>>])

-----------------------------------------------------------------------------
(* The inputs the engine is called on *)

\* the `sections` maps of the profiles
SectionMaps ==
    {EmptyDict,
     [experience |-> t_python, skills |-> t_java],
     [skills |-> t_chef, education |-> t_java],
     [experience |-> t_java, skills |-> t_blank],
     [summary |-> t_python]}

\* a profile as the preprocessor produces it
BaseProfile ==
    [skills |-> <<s_node, s_communication>>,
     education |-> <<e_bachelor>>,
     experience_years |-> None,
     cleaned_text |-> t_python,
     sections |-> EmptyDict]

\* the dict d without the key k
Without(d, k) == [key \in DOMAIN d \ {k} |-> d[key]]

\* BaseProfile with one field changed, or one optional key absent
Profiles ==
    {BaseProfile}
    \cup {[BaseProfile EXCEPT !.skills = l] :
            l \in {<<>>, <<s_NodeJS>>, <<s_communication_skills, s_node>>}}
    \cup {[BaseProfile EXCEPT !.education = l] :
            l \in {<<>>, <<e_Bachelor_of_Science>>, <<e_master, e_bachelor>>}}
    \cup {[BaseProfile EXCEPT !.experience_years = y] : y \in Years}
    \cup {[BaseProfile EXCEPT !.cleaned_text = t] : t \in Texts}
    \cup {[BaseProfile EXCEPT !.sections = m] : m \in SectionMaps}
    \cup {Without(BaseProfile, "experience_years"), Without(BaseProfile, "sections")}

\* the sets of texts on which the encoder may fail during one call
Failures == {F \in SUBSET (Texts \ {t_blank}) : Cardinality(F) <= MaxFailing}

\* the final scores given to the classifier: the hundredths and the values
\* just under the two thresholds
FinalScores ==
    {Rat(k, 100) : k \in 0..100} \cup {Rat(7499, 10000), Rat(4999, 10000)}

\* the feature_scores dicts given to calculate_relevance_score
FeatureScores ==
    {[hard_match_score |-> Rat(6, 10), soft_match_score |-> Rat(7, 10), final_score |-> f] :
        f \in FinalScores}
    \cup {EmptyDict}

\* the profiles given to simple_matching: skill lists of which none, a third
\* or all are matched, years absent, None, 0, short of and at the requirement,
\* texts sharing half or all of their words, or empty
SimpleProfiles ==
    LET full == {[skills |-> sk, education |-> ed, experience_years |-> y,
                  cleaned_text |-> t] :
                    sk \in {<<>>, <<s_python>>, <<s_python, s_docker, s_node>>},
                    ed \in {<<>>, <<e_bachelor>>},
                    y \in {None, Some(0), Some(2), Some(MaxYears)},
                    t \in {t_blank, t_python, t_java}}
    IN  full \cup {Without(d, "experience_years") : d \in {x \in full : x.experience_years = None}}

\* the ways list() can enumerate the three sets simple_matching makes lists of
ListOrders(resume_data, jd_data) ==
    LET resume_skills == set(Get(resume_data, "skills", <<>>))
        jd_skills == set(Get(jd_data, "skills", <<>>))
        resume_education == set(Get(resume_data, "education", <<>>))
        jd_education == set(Get(jd_data, "education", <<>>))
        sets == {jd_skills \ resume_skills, jd_education \ resume_education, resume_skills}
    IN  {list \in [sets -> UNION {Enumerations(S) : S \in sets}] :
            \A S \in sets : list[S] \in Enumerations(S)}

\* the profiles given to the gap analysis and the feedback
p_junior ==
    [skills |-> <<s_python>>, education |-> <<e_bachelor>>,
     experience_years |-> Some(3), cleaned_text |-> t_python, sections |-> EmptyDict]
p_veteran ==
    [skills |-> <<s_python, s_docker>>, education |-> <<e_master, e_bachelor>>,
     experience_years |-> Some(5), cleaned_text |-> t_java, sections |-> EmptyDict]
p_senior_jd ==
    [skills |-> <<s_python, s_docker, s_communication, s_NodeJS, s_node>>,
     education |-> <<e_master>>,
     experience_years |-> Some(5), cleaned_text |-> t_java, sections |-> EmptyDict]
p_open ==
    [skills |-> <<>>, education |-> <<>>,
     experience_years |-> None, cleaned_text |-> t_chef, sections |-> EmptyDict]
p_no_optional == Without(Without(p_junior, "experience_years"), "sections")

ScorerProfiles == {p_junior, p_veteran, p_senior_jd, p_open, p_no_optional}

\* the results of calculate_relevance_score given to the feedback: one score
\* in each band and on each threshold, and a dict without the score
ScorerScores ==
    {calculate_relevance_score([hard_match_score |-> Rat(6, 10),
                                soft_match_score |-> Rat(7, 10),
                                final_score |-> Rat(k, 100)]) : k \in {30, 50, 60, 75, 90}}
    \cup {EmptyDict}

\* the feature_scores dicts given to generate_comprehensive_analysis
AnalysisScores ==
    {[hard_match_score |-> Rat(6, 10), soft_match_score |-> Rat(7, 10),
      final_score |-> Rat(k, 100), relevance_percentage |-> Rat(k, 1)] : k \in {30, 50, 60, 75, 90}}

\* the processed files of a batch: the k-th file saved has id k
BatchProfiles == {BaseProfile, [BaseProfile EXCEPT !.cleaned_text = t_chef]}

\* the batches of resumes
ResumeBatches ==
    UNION {{[k \in 1..n |-> [id |-> k, file_name |-> <<"resume_", str(k), ".pdf">>,
                             processed_data |-> data[k]]] :
                data \in [1..n -> BatchProfiles]} : n \in 1..MaxBatch}

\* the batches of job descriptions: they ask for 2, 3, ... years of experience
JdBatches ==
    {[k \in 1..n |-> [id |-> k, file_name |-> <<"jd_", str(k), ".pdf">>,
                      processed_data |-> [BaseProfile EXCEPT !.experience_years = Some(k + 1)]]] :
        n \in 1..MaxBatch}

\* the sets of pairs (resume position, jd position) on which matching raises
FailedPairs(resume_processed, jd_processed) ==
    {F \in SUBSET ((1..Len(resume_processed)) \X (1..Len(jd_processed))) :
        Cardinality(F) <= MaxFailedPairs}

-----------------------------------------------------------------------------
(* The state machine: the caller is idle or has one engine call returned *)

Idle == [op |-> "idle"]

Init ==
    /\ sentence_model \in BOOLEAN      \* _initialize_models loaded the encoder or not
    /\ embeddings_cache = EmptyDict
    /\ openai_api_key \in BOOLEAN      \* RelevanceScorer(openai_api_key): given or None
    /\ matching_results = <<>>
    /\ resumes = <<>>
    /\ job_descriptions = <<>>
    /\ encoder_calls = [text \in Texts |-> 0]
    /\ contexts = <<>>
    /\ call = Idle

Call_hard_match_skills ==
    /\ call = Idle
    /\ \E resume_skills \in SkillLists, jd_skills \in SkillLists :
        call' = [op |-> "hard_match_skills",
                 resume_skills |-> resume_skills, jd_skills |-> jd_skills,
                 ret |-> hard_match_skills(resume_skills, jd_skills)]
    /\ UNCHANGED <<sentence_model, embeddings_cache, openai_api_key, matching_results,
                 resumes, job_descriptions, encoder_calls, contexts>>

Call_hard_match_education ==
    /\ call = Idle
    /\ \E resume_education \in EducationLists, jd_education \in EducationLists :
        call' = [op |-> "hard_match_education",
                 resume_education |-> resume_education, jd_education |-> jd_education,
                 ret |-> hard_match_education(resume_education, jd_education)]
    /\ UNCHANGED <<sentence_model, embeddings_cache, openai_api_key, matching_results,
                 resumes, job_descriptions, encoder_calls, contexts>>

Call_hard_match_experience ==
    /\ call = Idle
    /\ \E resume_years \in Years, jd_years \in Years :
        call' = [op |-> "hard_match_experience",
                 resume_years |-> resume_years, jd_years |-> jd_years,
                 ret |-> hard_match_experience(resume_years, jd_years)]
    /\ UNCHANGED <<sentence_model, embeddings_cache, openai_api_key, matching_results,
                 resumes, job_descriptions, encoder_calls, contexts>>

Call_hard_match_keywords ==
    /\ call = Idle
    /\ \E resume_text \in Texts, jd_text \in Texts :
        call' = [op |-> "hard_match_keywords",
                 resume_text |-> resume_text, jd_text |-> jd_text,
                 ret |-> hard_match_keywords(resume_text, jd_text)]
    /\ UNCHANGED <<sentence_model, embeddings_cache, openai_api_key, matching_results,
                 resumes, job_descriptions, encoder_calls, contexts>>

Call_calculate_hard_match_score ==
    /\ call = Idle
    /\ \E resume_data \in Profiles, jd_data \in Profiles :
        call' = [op |-> "calculate_hard_match_score",
                 resume_data |-> resume_data, jd_data |-> jd_data,
                 ret |-> calculate_hard_match_score(resume_data, jd_data)]
    /\ UNCHANGED <<sentence_model, embeddings_cache, openai_api_key, matching_results,
                 resumes, job_descriptions, encoder_calls, contexts>>

Call_soft_match_semantic ==
    /\ call = Idle
    /\ \E resume_text \in Texts, jd_text \in Texts, failing \in Failures :
        LET r == soft_match_semantic(embeddings_cache, resume_text, jd_text, failing)
        IN  /\ call' = [op |-> "soft_match_semantic",
                        resume_text |-> resume_text, jd_text |-> jd_text,
                        failing |-> failing, ret |-> r.value]
            /\ embeddings_cache' = r.cache
    /\ UNCHANGED <<sentence_model, openai_api_key, matching_results,
                 resumes, job_descriptions, encoder_calls, contexts>>

Call_soft_match_sections ==
    /\ call = Idle
    /\ \E resume_sections \in SectionMaps, jd_sections \in SectionMaps, failing \in Failures :
        \E r \in {soft_match_sections(embeddings_cache, resume_sections, jd_sections, failing)} :
            /\ call' = [op |-> "soft_match_sections",
                        resume_sections |-> resume_sections, jd_sections |-> jd_sections,
                        failing |-> failing, ret |-> r.value]
            /\ embeddings_cache' = r.cache
    /\ UNCHANGED <<sentence_model, openai_api_key, matching_results,
                 resumes, job_descriptions, encoder_calls, contexts>>

Call_calculate_soft_match_score ==
    /\ call = Idle
    /\ \E resume_data \in Profiles, jd_data \in Profiles, failing \in Failures :
        LET r == calculate_soft_match_score(embeddings_cache, resume_data, jd_data, failing)
        IN  /\ call' = [op |-> "calculate_soft_match_score",
                        resume_data |-> resume_data, jd_data |-> jd_data,
                        failing |-> failing, ret |-> r.value]
            /\ embeddings_cache' = r.cache
    /\ UNCHANGED <<sentence_model, openai_api_key, matching_results,
                 resumes, job_descriptions, encoder_calls, contexts>>

Call_calculate_final_score ==
    /\ call = Idle
    /\ \E resume_data \in Profiles, jd_data \in Profiles, failing \in Failures :
        LET r == calculate_final_score(embeddings_cache, resume_data, jd_data, failing)
        IN  /\ call' = [op |-> "calculate_final_score",
                        resume_data |-> resume_data, jd_data |-> jd_data,
                        failing |-> failing, ret |-> r.value]
            /\ embeddings_cache' = r.cache
    /\ UNCHANGED <<sentence_model, openai_api_key, matching_results,
                 resumes, job_descriptions, encoder_calls, contexts>>

Call_calculate_relevance_score ==
    /\ call = Idle
    /\ \E feature_scores \in FeatureScores :
        call' = [op |-> "calculate_relevance_score",
                 feature_scores |-> feature_scores,
                 ret |-> calculate_relevance_score(feature_scores)]
    /\ UNCHANGED <<sentence_model, embeddings_cache, openai_api_key, matching_results,
                 resumes, job_descriptions, encoder_calls, contexts>>

Call_identify_missing_skills ==
    /\ call = Idle
    /\ \E resume_skills \in GapSkillLists, jd_skills \in GapSkillLists :
        call' = [op |-> "identify_missing_skills",
                 resume_skills |-> resume_skills, jd_skills |-> jd_skills,
                 ret |-> identify_missing_skills(resume_skills, jd_skills)]
    /\ UNCHANGED <<sentence_model, embeddings_cache, openai_api_key, matching_results,
                 resumes, job_descriptions, encoder_calls, contexts>>

Call_identify_missing_education ==
    /\ call = Idle
    /\ \E resume_education \in EducationLists, jd_education \in EducationLists :
        call' = [op |-> "identify_missing_education",
                 resume_education |-> resume_education, jd_education |-> jd_education,
                 ret |-> identify_missing_education(resume_education, jd_education)]
    /\ UNCHANGED <<sentence_model, embeddings_cache, openai_api_key, matching_results,
                 resumes, job_descriptions, encoder_calls, contexts>>

Call_check_experience_gap ==
    /\ call = Idle
    /\ \E resume_years \in Years, jd_years \in Years :
        call' = [op |-> "check_experience_gap",
                 resume_years |-> resume_years, jd_years |-> jd_years,
                 ret |-> check_experience_gap(resume_years, jd_years)]
    /\ UNCHANGED <<sentence_model, embeddings_cache, openai_api_key, matching_results,
                 resumes, job_descriptions, encoder_calls, contexts>>

Call_generate_basic_feedback ==
    /\ call = Idle
    /\ \E resume_data \in ScorerProfiles, jd_data \in ScorerProfiles, scores \in ScorerScores :
        call' = [op |-> "generate_basic_feedback",
                 resume_data |-> resume_data, jd_data |-> jd_data, scores |-> scores,
                 ret |-> generate_basic_feedback(resume_data, jd_data, scores)]
    /\ UNCHANGED <<sentence_model, embeddings_cache, openai_api_key, matching_results,
                 resumes, job_descriptions, encoder_calls, contexts>>

Call_generate_llm_feedback ==
    /\ call = Idle
    /\ \E resume_data \in ScorerProfiles, jd_data \in ScorerProfiles,
          scores \in ScorerScores, llm \in LLMOutcomes :
        LET r == generate_llm_feedback(resume_data, jd_data, scores, llm)
        IN  call' = [op |-> "generate_llm_feedback",
                     resume_data |-> resume_data, jd_data |-> jd_data, scores |-> scores,
                     llm |-> llm, requests |-> r.requests, ret |-> r.feedback]
    /\ UNCHANGED <<sentence_model, embeddings_cache, openai_api_key, matching_results,
                 resumes, job_descriptions, encoder_calls, contexts>>

Call_generate_comprehensive_analysis ==
    /\ call = Idle
    /\ \E resume_data \in ScorerProfiles, jd_data \in ScorerProfiles,
          feature_scores \in AnalysisScores, llm \in LLMOutcomes :
        LET r == generate_comprehensive_analysis(resume_data, jd_data, feature_scores, llm)
        IN  call' = [op |-> "generate_comprehensive_analysis",
                     resume_data |-> resume_data, jd_data |-> jd_data,
                     feature_scores |-> feature_scores,
                     llm |-> llm, requests |-> r.requests, ret |-> r.value]
    /\ UNCHANGED <<sentence_model, embeddings_cache, openai_api_key, matching_results,
                 resumes, job_descriptions, encoder_calls, contexts>>

\* the call returns to the caller, which may call again
Return ==
    /\ call # Idle
    /\ call' = Idle
    /\ UNCHANGED <<sentence_model, embeddings_cache, openai_api_key, matching_results,
                 resumes, job_descriptions, encoder_calls, contexts>>

-----------------------------------------------------------------------------
(* The batch pipeline of main.py: one run of run_matching on a new pipeline *)

\* ResumeRelevancePipeline.__init__: RelevanceScorer() has no credential
-----------------------------------------------------------------------------
(* One FeatureEngineer asked for embeddings, one call after the other *)

CacheInit ==
    /\ sentence_model \in BOOLEAN
    /\ embeddings_cache = EmptyDict
    /\ openai_api_key = FALSE
    /\ matching_results = <<>>
    /\ resumes = <<>>
    /\ job_descriptions = <<>>
    /\ encoder_calls = [text \in Texts |-> 0]
    /\ contexts = <<>>
    /\ call = Idle

Call_get_embedding ==
    /\ call = Idle
    /\ \A text \in Texts : encoder_calls[text] < MaxEncodes
    /\ \E text \in Texts, failing \in Failures :
        \E r \in {get_embedding(embeddings_cache, text, failing)} :
            /\ call' = [op |-> "get_embedding", text |-> text, failing |-> failing,
                        cached |-> ~IsBlank(text) /\ hash(text) \in DOMAIN embeddings_cache,
                        ret |-> r.embedding]
            /\ embeddings_cache' = r.cache
            /\ encoder_calls' =
                    [t \in Texts |-> encoder_calls[t]
                                        + Cardinality({i \in DOMAIN r.encoded : r.encoded[i] = t})]
    /\ UNCHANGED <<sentence_model, openai_api_key, matching_results,
                 resumes, job_descriptions, contexts>>

CacheNext ==
    \/ Call_get_embedding
    \/ Return

CacheSpec == CacheInit /\ [][CacheNext]_vars

-----------------------------------------------------------------------------
(* get_embedding called from several contexts on one FeatureEngineer.  A step
   of a context reads or writes the shared dict at most once. *)

\* a dict holding the new entry alone
M_setitem(cache, text_hash, embedding) == (text_hash :> embedding)

\* self.embeddings_cache[text_hash] = embedding
setitem(cache, text_hash, embedding) == (text_hash :> embedding) @@ cache

\* a context that is not inside get_embedding
IdleContext ==
    [pc |-> "idle", text |-> t_blank, embedding |-> None, ret |-> None, raised |-> FALSE]

\* the texts the contexts ask for
ContextTexts == Texts

ConcurrentInit ==
    /\ sentence_model \in BOOLEAN
    /\ embeddings_cache = EmptyDict
    /\ openai_api_key = FALSE
    /\ matching_results = <<>>
    /\ resumes = <<>>
    /\ job_descriptions = <<>>
    /\ encoder_calls = [text \in Texts |-> 0]
    /\ contexts = [c \in 1..MaxContexts |-> IdleContext]
    /\ call = Idle

\* the call and its guard: no model or a blank text returns None
GetEmbedding_Begin(c) ==
    /\ contexts[c].pc = "idle"
    /\ \E text \in ContextTexts :
        contexts' = [contexts EXCEPT ![c] =
            IF ~sentence_model \/ IsBlank(text)
            THEN [IdleContext EXCEPT !.pc = "done", !.text = text]
            ELSE [IdleContext EXCEPT !.pc = "lookup", !.text = text]]
    /\ UNCHANGED <<sentence_model, embeddings_cache, openai_api_key, matching_results,
                   resumes, job_descriptions, encoder_calls, call>>

\* text_hash in self.embeddings_cache
GetEmbedding_Lookup(c) ==
    /\ contexts[c].pc = "lookup"
    /\ contexts' = [contexts EXCEPT ![c].pc =
            IF hash(contexts[c].text) \in DOMAIN embeddings_cache THEN "read" ELSE "encode"]
    /\ UNCHANGED <<sentence_model, embeddings_cache, openai_api_key, matching_results,
                   resumes, job_descriptions, encoder_calls, call>>

\* return self.embeddings_cache[text_hash]
GetEmbedding_Read(c) ==
    /\ contexts[c].pc = "read"
    /\ contexts' = [contexts EXCEPT ![c].pc = "done", ![c].ret =
            IF hash(contexts[c].text) \in DOMAIN embeddings_cache
            THEN embeddings_cache[hash(contexts[c].text)]
            ELSE <<"KeyError">>]
    /\ UNCHANGED <<sentence_model, embeddings_cache, openai_api_key, matching_results,
                   resumes, job_descriptions, encoder_calls, call>>

\* self.sentence_model.encode(text) returns, or raises and None is returned
GetEmbedding_Encode(c) ==
    /\ contexts[c].pc = "encode"
    /\ \E raises \in BOOLEAN :
        IF raises
        THEN /\ contexts' = [contexts EXCEPT ![c].pc = "done", ![c].raised = TRUE]
             /\ UNCHANGED encoder_calls
        ELSE /\ contexts' = [contexts EXCEPT ![c].pc = "insert",
                                             ![c].embedding = Encode(contexts[c].text)]
             /\ encoder_calls' = [encoder_calls EXCEPT ![contexts[c].text] = @ + 1]
    /\ UNCHANGED <<sentence_model, embeddings_cache, openai_api_key, matching_results,
                   resumes, job_descriptions, call>>

\* the insert, and the embedding returned
GetEmbedding_Insert(c) ==
    /\ contexts[c].pc = "insert"
    /\ embeddings_cache' = setitem(embeddings_cache, hash(contexts[c].text),
                                   contexts[c].embedding)
    /\ contexts' = [contexts EXCEPT ![c].pc = "done", ![c].ret = contexts[c].embedding]
    /\ UNCHANGED <<sentence_model, openai_api_key, matching_results,
                   resumes, job_descriptions, encoder_calls, call>>

\* the caller has the result; the context may call again
GetEmbedding_Return(c) ==
    /\ contexts[c].pc = "done"
    /\ contexts' = [contexts EXCEPT ![c] = IdleContext]
    /\ UNCHANGED <<sentence_model, embeddings_cache, openai_api_key, matching_results,
                   resumes, job_descriptions, encoder_calls, call>>

ConcurrentNext ==
    \E c \in 1..MaxContexts :
        \/ GetEmbedding_Begin(c)
        \/ GetEmbedding_Lookup(c)
        \/ GetEmbedding_Read(c)
        \/ GetEmbedding_Encode(c)
        \/ GetEmbedding_Insert(c)
        \/ GetEmbedding_Return(c)

ConcurrentSpec == ConcurrentInit /\ [][ConcurrentNext]_vars

-----------------------------------------------------------------------------
(* The simplified matcher called on one pair of profiles *)

SimpleInit ==
    /\ sentence_model = FALSE          \* the simplified pipeline loads no encoder
    /\ embeddings_cache = EmptyDict
    /\ openai_api_key = FALSE
    /\ matching_results = <<>>
    /\ resumes = <<>>
    /\ job_descriptions = <<>>
    /\ encoder_calls = [text \in Texts |-> 0]
    /\ contexts = <<>>
    /\ call = Idle

Call_simple_matching ==
    /\ call = Idle
    /\ \E resume_data \in SimpleProfiles, jd_data \in SimpleProfiles :
        \E list \in ListOrders(resume_data, jd_data) :
            call' = [op |-> "simple_matching",
                     resume_data |-> resume_data, jd_data |-> jd_data,
                     ret |-> simple_matching(resume_data, jd_data, list)]
    /\ UNCHANGED <<sentence_model, embeddings_cache, openai_api_key, matching_results,
                 resumes, job_descriptions, encoder_calls, contexts>>

Call_SimpleResumeRelevancePipeline_simple_matching ==
    /\ call = Idle
    /\ \E resume_data \in SimpleProfiles, jd_data \in SimpleProfiles :
        \E list \in ListOrders(resume_data, jd_data) :
            call' = [op |-> "SimpleResumeRelevancePipeline.simple_matching",
                     resume_data |-> resume_data, jd_data |-> jd_data,
                     ret |-> SimpleResumeRelevancePipeline_simple_matching(
                                resume_data, jd_data, list)]
    /\ UNCHANGED <<sentence_model, embeddings_cache, openai_api_key, matching_results,
                 resumes, job_descriptions, encoder_calls, contexts>>

SimpleNext ==
    \/ Call_simple_matching
    \/ Call_SimpleResumeRelevancePipeline_simple_matching
    \/ Return

SimpleSpec == SimpleInit /\ [][SimpleNext]_vars

-----------------------------------------------------------------------------
(* DatabaseManager and the endpoints of api.py.  A request is handled from its
   first statement to its response before the next one starts. *)

\* json.dumps(obj) and json.loads(s): the column holds the JSON text of obj
dumps(obj) == <<"json", obj>>
loads(s) == s[2]

\* save_resume: the row inserted beside the rows already there (no uniqueness
\* constraint of the table is declared in the sources) and cursor.lastrowid
save_resume(rows, file_name, processed_data) ==
    LET lastrowid == NextRowId(rows)
    IN  [rows |-> Append(rows, [id |-> lastrowid, file_name |-> file_name,
                                processed_data |-> dumps(processed_data)]),
         lastrowid |-> lastrowid]

save_job_description(rows, file_name, processed_data) ==
    LET lastrowid == NextRowId(rows)
    IN  [rows |-> Append(rows, [id |-> lastrowid, file_name |-> file_name,
                                processed_data |-> dumps(processed_data)]),
         lastrowid |-> lastrowid]

\* SELECT * ... ORDER BY created_at DESC: the newest row first
get_resumes(rows) == [i \in 1..Len(rows) |-> rows[Len(rows) + 1 - i]]
get_job_descriptions(rows) == [i \in 1..Len(rows) |-> rows[Len(rows) + 1 - i]]

\* next((r for r in rows if r['id'] == id), None)
next(rows, id) ==
    IF \E i \in DOMAIN rows : rows[i].id = id
    THEN Some(rows[CHOOSE i \in DOMAIN rows :
                        rows[i].id = id /\ \A j \in 1..(i - 1) : rows[j].id # id])
    ELSE None

\* delete_resume leaving the matching results alone
M_delete_resume(resume_rows, result_rows, resume_id, fails) ==
    IF fails
    THEN [ret |-> FALSE, resumes |-> resume_rows, matching_results |-> result_rows]
    ELSE [ret |-> TRUE,
          resumes |-> SelectSeq(resume_rows, LAMBDA row : row.id # resume_id),
          matching_results |-> result_rows]

\* delete_resume: both DELETEs committed and True, or (`fails`: a statement
\* raises) the connection rolled back and False
delete_resume(resume_rows, result_rows, resume_id, fails) ==
    IF fails
    THEN [ret |-> FALSE, resumes |-> resume_rows, matching_results |-> result_rows]
    ELSE [ret |-> TRUE,
          resumes |-> SelectSeq(resume_rows, LAMBDA row : row.id # resume_id),
          matching_results |-> SelectSeq(result_rows,
                                         LAMBDA row : row.resume_id # resume_id)]

delete_job_description(jd_rows, result_rows, jd_id, fails) ==
    IF fails
    THEN [ret |-> FALSE, job_descriptions |-> jd_rows, matching_results |-> result_rows]
    ELSE [ret |-> TRUE,
          job_descriptions |-> SelectSeq(jd_rows, LAMBDA row : row.id # jd_id),
          matching_results |-> SelectSeq(result_rows, LAMBDA row : row.jd_id # jd_id)]

\* HTTPException(status_code, detail) and a 200 response with its body
HTTPException(status_code, detail) == [status_code |-> status_code, detail |-> detail]
Ok(body) == [status_code |-> 200, body |-> body]

\* str(e) of an HTTPException: "<status_code>: <detail>", or the empty string
\* in the releases of the framework whose exception defines no __str__
StrHTTPException(e) == {<<str(e.status_code), ": ">> \o e.detail, <<>>}

\* upload_resume: what the try block raises, if anything, is answered by the
\* `except Exception` clause, the only one of the handler, with a 500 whose
\* detail is str(e).  str_e is that string.
upload_resume(rows, file, str_e) ==
    LET raised == IF IsBlank(file.text)
                  THEN Some(HTTPException(400, <<"No text extracted from the file">>))
                  ELSE None
    IN  IF raised # None
        THEN [response |-> HTTPException(500, str_e), rows |-> rows]
        ELSE LET processed_data == file.processed_data
                 saved == save_resume(rows, file.filename, processed_data)
             IN  [response |-> Ok([message |-> <<"Resume uploaded successfully">>,
                                   resume_id |-> saved.lastrowid,
                                   file_name |-> file.filename,
                                   word_count |-> processed_data.word_count,
                                   extracted_sections |-> DOMAIN processed_data.sections]),
                  rows |-> saved.rows]

upload_job_description(rows, file, str_e) ==
    LET raised == IF IsBlank(file.text)
                  THEN Some(HTTPException(400, <<"No text extracted from the file">>))
                  ELSE None
    IN  IF raised # None
        THEN [response |-> HTTPException(500, str_e), rows |-> rows]
        ELSE LET processed_data == file.processed_data
                 saved == save_job_description(rows, file.filename, processed_data)
             IN  [response |-> Ok([message |-> <<"Job description uploaded successfully">>,
                                   jd_id |-> saved.lastrowid,
                                   file_name |-> file.filename,
                                   word_count |-> processed_data.word_count,
                                   extracted_sections |-> DOMAIN processed_data.sections]),
                  rows |-> saved.rows]

\* match_resume_jd matching a resume with a job description that is not there
M_match_resume_jd(resume_rows, jd_rows, result_rows, resume_id, jd_id, list, fails) ==
    LET resume_data == next(get_resumes(resume_rows), resume_id)
        jd_data == next(get_job_descriptions(jd_rows), jd_id)
    IN  IF resume_data = None
        THEN [response |-> HTTPException(404, <<"Resume not found">>),
              matching_results |-> result_rows]
        ELSE
        LET resume_processed == loads(Val(resume_data).processed_data)
            jd_processed == IF jd_data = None THEN EmptyDict
                            ELSE loads(Val(jd_data).processed_data)
            analysis_result == simple_matching(resume_processed, jd_processed, list)
            saved == save_matching_result(result_rows, resume_id, jd_id, analysis_result)
        IN  IF fails
            THEN [response |-> HTTPException(500, <<"database is locked">>),
                  matching_results |-> result_rows]
            ELSE [response |-> Ok([message |-> <<"Matching completed successfully">>,
                                   result_id |-> saved.lastrowid,
                                   resume_name |-> Val(resume_data).file_name,
                                   jd_name |-> IF jd_data = None THEN "" ELSE Val(jd_data).file_name,
                                   analysis |-> analysis_result]),
                  matching_results |-> saved.rows]

\* match_resume_jd: the response and the matching_results table left.  `fails`:
\* save_matching_result raises, which the last except clause answers with 500
match_resume_jd(resume_rows, jd_rows, result_rows, resume_id, jd_id, list, fails) ==
    LET resume_data == next(get_resumes(resume_rows), resume_id)
        jd_data == next(get_job_descriptions(jd_rows), jd_id)
    IN  IF resume_data = None
        THEN [response |-> HTTPException(404, <<"Resume not found">>),
              matching_results |-> result_rows]
        ELSE IF jd_data = None
        THEN [response |-> HTTPException(404, <<"Job description not found">>),
              matching_results |-> result_rows]
        ELSE
        LET resume_processed == loads(Val(resume_data).processed_data)
            jd_processed == loads(Val(jd_data).processed_data)
            analysis_result == simple_matching(resume_processed, jd_processed, list)
            saved == save_matching_result(result_rows, resume_id, jd_id, analysis_result)
        IN  IF fails
            THEN [response |-> HTTPException(500, <<"database is locked">>),
                  matching_results |-> result_rows]
            ELSE [response |-> Ok([message |-> <<"Matching completed successfully">>,
                                   result_id |-> saved.lastrowid,
                                   resume_name |-> Val(resume_data).file_name,
                                   jd_name |-> Val(jd_data).file_name,
                                   analysis |-> analysis_result]),
                  matching_results |-> saved.rows]

\* the two loops of match_all_resumes_jds from the k-th pair on, resume by
\* resume and, for each, job description by job description
RECURSIVE MatchAllLoop(_, _, _, _, _, _)
MatchAllLoop(resumes_, jds, result_rows, results, lists, k) ==
    IF k > Len(resumes_) * Len(jds)
    THEN [results |-> results, matching_results |-> result_rows]
    ELSE LET resume == resumes_[((k - 1) \div Len(jds)) + 1]
             jd == jds[((k - 1) % Len(jds)) + 1]
             analysis_result == simple_matching(loads(resume.processed_data),
                                                loads(jd.processed_data),
                                                lists[<<resume.id, jd.id>>])
             saved == save_matching_result(result_rows, resume.id, jd.id, analysis_result)
         IN  MatchAllLoop(resumes_, jds, saved.rows,
                          Append(results, [resume_name |-> resume.file_name,
                                           jd_name |-> jd.file_name,
                                           relevance_score |-> analysis_result.relevance_score,
                                           verdict |-> analysis_result.verdict]),
                          lists, k + 1)

match_all_resumes_jds(resume_rows, jd_rows, result_rows, lists) ==
    LET resumes_ == get_resumes(resume_rows)
        jds == get_job_descriptions(jd_rows)
    IN  IF resumes_ = <<>>
        THEN [response |-> HTTPException(400, <<"No resumes found">>),
              matching_results |-> result_rows]
        ELSE IF jds = <<>>
        THEN [response |-> HTTPException(400, <<"No job descriptions found">>),
              matching_results |-> result_rows]
        ELSE LET loop == MatchAllLoop(resumes_, jds, result_rows, <<>>, lists, 1)
             IN  [response |-> Ok([message |-> <<"Bulk matching completed">>,
                                   total_matches |-> Len(loop.results),
                                   results |-> loop.results]),
                  matching_results |-> loop.matching_results]

\* the delete endpoints: the HTTPException raised for a False is answered by
\* the handler's own `except Exception` clause with a 500 of detail str(e)
api_delete_resume(resume_rows, result_rows, resume_id, fails, str_e) ==
    LET done == delete_resume(resume_rows, result_rows, resume_id, fails)
    IN  [response |-> IF done.ret THEN Ok([message |-> <<"Resume deleted successfully">>])
                      ELSE HTTPException(500, str_e),
         resumes |-> done.resumes, matching_results |-> done.matching_results]

api_delete_job_description(jd_rows, result_rows, jd_id, fails, str_e) ==
    LET done == delete_job_description(jd_rows, result_rows, jd_id, fails)
    IN  [response |-> IF done.ret
                      THEN Ok([message |-> <<"Job description deleted successfully">>])
                      ELSE HTTPException(500, str_e),
         job_descriptions |-> done.job_descriptions,
         matching_results |-> done.matching_results]

\* a scan from which no text is extracted
scan == [filename |-> "scan.pdf", text |-> t_blank, processed_data |-> EmptyDict]

\* the files uploaded as resumes and as job descriptions: the scan, and a file
\* with its text and the profile the preprocessor makes of it
ResumeFiles ==
    {scan,
     [filename |-> "python.pdf", text |-> t_python,
      processed_data |-> [skills |-> <<s_python>>, education |-> <<e_bachelor>>,
                          experience_years |-> Some(2), cleaned_text |-> t_python,
                          word_count |-> Len(t_python), sections |-> EmptyDict]]}
JdFiles ==
    {scan,
     [filename |-> "java.pdf", text |-> t_java,
      processed_data |-> [skills |-> <<s_python, s_docker>>, education |-> <<>>,
                          experience_years |-> None, cleaned_text |-> t_java,
                          word_count |-> Len(t_java), sections |-> EmptyDict]]}

\* the ids a request names: those the tables can hold
Ids == 1..MaxId

\* the profile stored under an id, an empty one when no row has the id
StoredProfile(rows, id) ==
    IF next(rows, id) = None THEN EmptyDict ELSE loads(Val(next(rows, id)).processed_data)

\* the enumeration orders of simple_matching for each pair of stored rows
PairListOrders(resume_rows, jd_rows) ==
    LET pairs == {<<resume_rows[i].id, jd_rows[j].id>> :
                        i \in DOMAIN resume_rows, j \in DOMAIN jd_rows}
        orders(pair) == ListOrders(StoredProfile(resume_rows, pair[1]),
                                   StoredProfile(jd_rows, pair[2]))
    IN  {lists \in [pairs -> UNION {orders(pair) : pair \in pairs}] :
            \A pair \in pairs : lists[pair] \in orders(pair)}

ApiInit ==
    /\ sentence_model = FALSE
    /\ embeddings_cache = EmptyDict
    /\ openai_api_key = FALSE
    /\ matching_results = <<>>
    /\ resumes = <<>>
    /\ job_descriptions = <<>>
    /\ encoder_calls = [text \in Texts |-> 0]
    /\ contexts = <<>>
    /\ call = Idle

Call_upload_resume ==
    /\ call = Idle
    /\ NextRowId(resumes) <= MaxId
    /\ \E file \in ResumeFiles :
        \E str_e \in StrHTTPException(
                        HTTPException(400, <<"No text extracted from the file">>)) :
        \E r \in {upload_resume(resumes, file, str_e)} :
            /\ call' = [op |-> "upload_resume", file |-> file, response |-> r.response]
            /\ resumes' = r.rows
    /\ UNCHANGED <<sentence_model, embeddings_cache, openai_api_key, matching_results,
                   job_descriptions, encoder_calls, contexts>>

Call_upload_job_description ==
    /\ call = Idle
    /\ NextRowId(job_descriptions) <= MaxId
    /\ \E file \in JdFiles :
        \E str_e \in StrHTTPException(
                        HTTPException(400, <<"No text extracted from the file">>)) :
        \E r \in {upload_job_description(job_descriptions, file, str_e)} :
            /\ call' = [op |-> "upload_job_description", file |-> file,
                        response |-> r.response]
            /\ job_descriptions' = r.rows
    /\ UNCHANGED <<sentence_model, embeddings_cache, openai_api_key, matching_results,
                   resumes, encoder_calls, contexts>>

Call_match_resume_jd ==
    /\ call = Idle
    /\ NextRowId(matching_results) <= MaxResultId
    /\ \E resume_id \in Ids, jd_id \in Ids, fails \in BOOLEAN :
        \E list \in ListOrders(StoredProfile(resumes, resume_id),
                               StoredProfile(job_descriptions, jd_id)) :
        \E r \in {match_resume_jd(resumes, job_descriptions, matching_results,
                                  resume_id, jd_id, list, fails)} :
            /\ call' = [op |-> "match_resume_jd", resume_id |-> resume_id, jd_id |-> jd_id,
                        response |-> r.response]
            /\ matching_results' = r.matching_results
    /\ UNCHANGED <<sentence_model, embeddings_cache, openai_api_key,
                   resumes, job_descriptions, encoder_calls, contexts>>

Call_match_all_resumes_jds ==
    /\ call = Idle
    /\ NextRowId(matching_results) + Len(resumes) * Len(job_descriptions) <= MaxResultId + 1
    /\ \E lists \in PairListOrders(resumes, job_descriptions) :
        \E r \in {match_all_resumes_jds(resumes, job_descriptions, matching_results, lists)} :
            /\ call' = [op |-> "match_all_resumes_jds", response |-> r.response]
            /\ matching_results' = r.matching_results
    /\ UNCHANGED <<sentence_model, embeddings_cache, openai_api_key,
                   resumes, job_descriptions, encoder_calls, contexts>>

Call_delete_resume ==
    /\ call = Idle
    /\ \E resume_id \in Ids, fails \in BOOLEAN :
        \E str_e \in StrHTTPException(HTTPException(500, <<"Failed to delete resume">>)) :
        \E r \in {api_delete_resume(resumes, matching_results, resume_id, fails, str_e)} :
            /\ call' = [op |-> "delete_resume", resume_id |-> resume_id,
                        response |-> r.response]
            /\ resumes' = r.resumes
            /\ matching_results' = r.matching_results
    /\ UNCHANGED <<sentence_model, embeddings_cache, openai_api_key,
                   job_descriptions, encoder_calls, contexts>>

Call_delete_job_description ==
    /\ call = Idle
    /\ \E jd_id \in Ids, fails \in BOOLEAN :
        \E str_e \in StrHTTPException(
                        HTTPException(500, <<"Failed to delete job description">>)) :
        \E r \in {api_delete_job_description(job_descriptions, matching_results,
                                             jd_id, fails, str_e)} :
            /\ call' = [op |-> "delete_job_description", jd_id |-> jd_id,
                        response |-> r.response]
            /\ job_descriptions' = r.job_descriptions
            /\ matching_results' = r.matching_results
    /\ UNCHANGED <<sentence_model, embeddings_cache, openai_api_key,
                   resumes, encoder_calls, contexts>>

ApiNext ==
    \/ Call_upload_resume
    \/ Call_upload_job_description
    \/ Call_match_resume_jd
    \/ Call_match_all_resumes_jds
    \/ Call_delete_resume
    \/ Call_delete_job_description
    \/ Return

ApiSpec == ApiInit /\ [][ApiNext]_vars

-----------------------------------------------------------------------------
(* The batch pipeline of main.py *)

PipelineInit ==
    /\ sentence_model \in BOOLEAN
    /\ embeddings_cache = EmptyDict
    /\ openai_api_key = FALSE
    /\ matching_results = <<>>
    /\ resumes = <<>>
    /\ job_descriptions = <<>>
    /\ encoder_calls = [text \in Texts |-> 0]
    /\ contexts = <<>>
    /\ call = Idle

\* The encoder does not fail during the batch: a failure of encode() is
\* absorbed by get_embedding and changes scores only.
Call_run_matching ==
    /\ call = Idle
    /\ \E resume_processed \in ResumeBatches, jd_processed \in JdBatches,
          raises \in {"score", "analysis", "save"} :
        \E failed \in FailedPairs(resume_processed, jd_processed) :
            \E r \in {run_matching(embeddings_cache, matching_results,
                                   resume_processed, jd_processed, failed, raises, {})} :
                /\ call' = [op |-> "run_matching",
                            resume_processed |-> resume_processed,
                            jd_processed |-> jd_processed,
                            failed |-> failed, raises |-> raises,
                            log |-> r.log,
                            ret |-> [results |-> r.results]]
                /\ embeddings_cache' = r.cache
                /\ matching_results' = r.rows
    /\ UNCHANGED <<sentence_model, openai_api_key,
                 resumes, job_descriptions, encoder_calls, contexts>>

\* run_complete_pipeline after run_matching: the report is generated and the
\* pipeline ends
Finished == [op |-> "finished"]

Call_generate_report ==
    /\ call # Idle /\ call # Finished
    /\ call' = Finished
    /\ UNCHANGED <<sentence_model, embeddings_cache, openai_api_key, matching_results,
                 resumes, job_descriptions, encoder_calls, contexts>>

PipelineNext ==
    \/ Call_run_matching
    \/ Call_generate_report

PipelineSpec == PipelineInit /\ [][PipelineNext]_vars

-----------------------------------------------------------------------------
(* The engine called method by method *)

Next ==
    \/ Call_hard_match_skills
    \/ Call_hard_match_education
    \/ Call_hard_match_experience
    \/ Call_hard_match_keywords
    \/ Call_calculate_hard_match_score
    \/ Call_soft_match_semantic
    \/ Call_soft_match_sections
    \/ Call_calculate_soft_match_score
    \/ Call_calculate_final_score
    \/ Call_calculate_relevance_score
    \/ Call_identify_missing_skills
    \/ Call_identify_missing_education
    \/ Call_check_experience_gap
    \/ Call_generate_basic_feedback
    \/ Call_generate_llm_feedback
    \/ Call_generate_comprehensive_analysis
    \/ Return

Spec == Init /\ [][Next]_vars

-----------------------------------------------------------------------------
(* Properties *)

\* x is a score of [0.0, 1.0]
InUnit(x) == RLe(Zero, x) /\ RLe(x, One)

\* C1: the hard_match_score, soft_match_score and final_score returned by
\* calculate_final_score each lie in [0,1], whatever the cosine similarity of
\* the embeddings is.
C1_ScoresInUnitInterval ==
    call.op = "calculate_final_score" =>
        /\ InUnit(call.ret.hard_match_score)
        /\ InUnit(call.ret.soft_match_score)
        /\ InUnit(call.ret.final_score)

\* C2: calculate_relevance_score gives exactly one verdict of High, Medium and
\* Low: High iff final_score >= 0.75, Medium iff 0.50 <= final_score < 0.75,
\* Low otherwise; 0.75 gives High, 0.7499 gives Medium and 0.50 gives Medium.
C2_VerdictTiers ==
    call.op = "calculate_relevance_score" =>
        LET f == Get(call.feature_scores, "final_score", Zero)
            verdict == call.ret.verdict
        IN  /\ verdict \in {"High", "Medium", "Low"}
            /\ verdict = "High" <=> 100 * f[1] >= 75 * f[2]
            /\ verdict = "Medium" <=> (100 * f[1] >= 50 * f[2] /\ 100 * f[1] < 75 * f[2])
            /\ verdict = "Low" <=> 100 * f[1] < 50 * f[2]
            /\ f = Rat(75, 100) => verdict = "High"
            /\ f = Rat(7499, 10000) => verdict = "Medium"
            /\ f = Rat(50, 100) => verdict = "Medium"

\* C2 witness: the score 0.7499, just under the High threshold, is classified Medium
C2_Witness ==
    /\ call.op = "calculate_relevance_score"
    /\ Get(call.feature_scores, "final_score", Zero) = Rat(7499, 10000)
    /\ call.ret.verdict = "Medium"

\* C3: the final score of calculate_final_score is 0.6 * hard_score +
\* 0.4 * soft_score and relevance_percentage is final_score * 100; hard_score
\* 0.6 with soft_score 0.7 gives 0.64, which calculate_relevance_score
\* classifies as Medium.
C3_FinalScoreFormula ==
    /\ call.op = "calculate_final_score" =>
        LET hard == call.ret.hard_match_score
            soft == call.ret.soft_match_score
            final == call.ret.final_score
            pct == call.ret.relevance_percentage
        IN  \* 10 * final = 6 * hard + 4 * soft, over the common denominator
            /\ 10 * final[1] * hard[2] * soft[2]
                    = final[2] * (6 * hard[1] * soft[2] + 4 * soft[1] * hard[2])
            /\ pct[1] * final[2] = 100 * final[1] * pct[2]
            /\ (hard = Rat(6, 10) /\ soft = Rat(7, 10)) => final = Rat(64, 100)
    /\ (/\ call.op = "calculate_relevance_score"
        /\ Get(call.feature_scores, "final_score", Zero) = Rat(64, 100))
            => call.ret.verdict = "Medium"

\* C3 witness: a pair of profiles scored hard 0.6 and soft 0.7, hence 0.64
C3_Witness ==
    /\ call.op = "calculate_final_score"
    /\ call.ret.hard_match_score = Rat(6, 10)
    /\ call.ret.soft_match_score = Rat(7, 10)
    /\ call.ret.final_score = Rat(64, 100)

\* C4: calculate_hard_match_score returns min(1.0, 0.4 * skills + 0.2 *
\* education + 0.2 * experience + 0.2 * keywords) of the four matchers' results
\* on the two profiles, and never more than 1.0.
C4_HardScoreFormula ==
    call.op = "calculate_hard_match_score" =>
        LET r == call.resume_data
            j == call.jd_data
            skills == hard_match_skills(Get(r, "skills", <<>>), Get(j, "skills", <<>>))
            education == hard_match_education(Get(r, "education", <<>>),
                                              Get(j, "education", <<>>))
            experience == hard_match_experience(Get(r, "experience_years", None),
                                                Get(j, "experience_years", None))
            keywords == hard_match_keywords(Get(r, "cleaned_text", t_blank),
                                            Get(j, "cleaned_text", t_blank))
            sum == RAdd(RAdd(RMul(Rat(4, 10), skills), RMul(Rat(2, 10), education)),
                        RAdd(RMul(Rat(2, 10), experience), RMul(Rat(2, 10), keywords)))
        IN  /\ call.ret = (IF RLe(One, sum) THEN One ELSE sum)
            /\ RLe(call.ret, One)

\* C4 witness: skills, education and experience all matched in full
C4_Witness ==
    /\ call.op = "calculate_hard_match_score"
    /\ hard_match_skills(Get(call.resume_data, "skills", <<>>),
                         Get(call.jd_data, "skills", <<>>)) = One
    /\ hard_match_education(Get(call.resume_data, "education", <<>>),
                            Get(call.jd_data, "education", <<>>)) = One
    /\ hard_match_experience(Get(call.resume_data, "experience_years", None),
                             Get(call.jd_data, "experience_years", None)) = One
    /\ call.ret = Rat(8, 10)

\* The similarity of two texts once the call has returned: the cosine of their
\* embeddings when the encoder is loaded and both texts have an embedding (a
\* non-blank text has one exactly when the cache holds it after the call), else 0.
C5_Similarity(a, b) ==
    IF /\ sentence_model
       /\ ~IsBlank(a) /\ hash(a) \in DOMAIN embeddings_cache
       /\ ~IsBlank(b) /\ hash(b) \in DOMAIN embeddings_cache
    THEN Rat(Encode(a)[1] * Encode(b)[1] + Encode(a)[2] * Encode(b)[2], 25 * 25)
    ELSE Zero

\* The average similarity of the sections both maps have
C5_SectionAverage(rs, js) ==
    LET common == {x \in {"experience", "skills", "education"} :
                        x \in DOMAIN rs /\ x \in DOMAIN js}
        sim == [x \in common |-> C5_Similarity(rs[x], js[x])]
        total == IF common = {} THEN Zero
                 ELSE RSum([i \in 1..3 |->
                        LET x == <<"experience", "skills", "education">>[i]
                        IN  IF x \in common THEN sim[x] ELSE Zero])
    IN  IF common = {} THEN Zero ELSE RMul(total, Rat(1, Cardinality(common)))

\* C5: calculate_soft_match_score returns 0.7 * (semantic similarity of the two
\* cleaned_text values) + 0.3 * (section-average similarity of the two section maps).
C5_SoftScoreFormula ==
    call.op = "calculate_soft_match_score" =>
        LET r == call.resume_data
            j == call.jd_data
        IN  call.ret =
                RAdd(RMul(Rat(7, 10), C5_Similarity(Get(r, "cleaned_text", t_blank),
                                                    Get(j, "cleaned_text", t_blank))),
                     RMul(Rat(3, 10), C5_SectionAverage(Get(r, "sections", EmptyDict),
                                                        Get(j, "sections", EmptyDict))))

\* C5 witness: the texts are the same (similarity 1) and the common sections
\* average 0.3 (experience 0.6, skills 0 for a blank section text): 0.79
C5_Witness ==
    /\ call.op = "calculate_soft_match_score"
    /\ Get(call.resume_data, "sections", EmptyDict) = [experience |-> t_python, skills |-> t_java]
    /\ Get(call.jd_data, "sections", EmptyDict) = [experience |-> t_java, skills |-> t_blank]
    /\ call.ret = Rat(79, 100)

\* the best token-sort similarity of a requirement skill against the candidate skills
C6_Best(jd_skill, resume_skills) ==
    LET ratios == {token_sort_ratio(jd_skill, resume_skills[j]) : j \in 1..Len(resume_skills)}
    IN  CHOOSE m \in ratios : \A x \in ratios : x <= m

\* C6: hard_match_skills returns matched_count / |requirement skills|, a
\* requirement skill being matched iff its best token-sort similarity against
\* the candidate skills is >= 80 (79 does not match, 80 does), and 0.0 whenever
\* the requirement skill list is empty.
C6_SkillScore ==
    call.op = "hard_match_skills" =>
        LET r == call.resume_skills
            j == call.jd_skills
            matched == {i \in 1..Len(j) : r # <<>> /\ C6_Best(j[i], r) >= 80}
        IN  /\ j = <<>> => call.ret = Zero
            /\ j # <<>> => call.ret[1] * Len(j) = Cardinality(matched) * call.ret[2]
            /\ (j = <<s_communication_skills>> /\ r = <<s_communication>>) => call.ret = Zero
            /\ (j = <<s_node>> /\ r = <<s_NodeJS>>) => call.ret = One

\* C6 witness: of two requirement skills one has best similarity 80 and is
\* matched, the other has best similarity 79 and is not
C6_Witness ==
    /\ call.op = "hard_match_skills"
    /\ call.jd_skills = <<s_node, s_communication_skills>>
    /\ call.resume_skills = <<s_NodeJS, s_communication>>
    /\ C6_Best(s_node, call.resume_skills) = 80
    /\ C6_Best(s_communication_skills, call.resume_skills) = 79
    /\ call.ret = Rat(1, 2)

\* after case-folding, a is a substring of b or b of a
C7_Contains(a, b) == IsSubstring(Lower(a), Lower(b)) \/ IsSubstring(Lower(b), Lower(a))

\* C7: hard_match_education returns the number of requirement items that,
\* case-folded, are a substring of or contain a candidate item, over the number
\* of requirement items, each requirement item counted at most once; 0.0 if
\* either list is empty.
C7_EducationScore ==
    call.op = "hard_match_education" =>
        LET r == call.resume_education
            j == call.jd_education
            matched == {i \in 1..Len(j) : \E k \in 1..Len(r) : C7_Contains(j[i], r[k])}
        IN  /\ (r = <<>> \/ j = <<>>) => call.ret = Zero
            /\ (r # <<>> /\ j # <<>>) =>
                    call.ret[1] * Len(j) = Cardinality(matched) * call.ret[2]

\* C7 witness: one requirement item contained in two candidate items scores 1.0
C7_Witness ==
    /\ call.op = "hard_match_education"
    /\ call.jd_education = <<e_bachelor>>
    /\ call.resume_education = <<e_Bachelor_of_Science, e_bachelor>>
    /\ call.ret = One

\* C8: hard_match_experience returns 0.0 when either years value is
\* unspecified, 1.0 when candidate_years >= required_years and candidate_years /
\* required_years otherwise; for all years >= 0 (required_years = 0 included)
\* the result is in [0,1] and no division by zero occurs; (5,3) gives 1.0 and
\* (2,4) gives 0.5.
C8_ExperienceScore ==
    call.op = "hard_match_experience" =>
        LET r == call.resume_years
            j == call.jd_years
        IN  /\ call.ret # ZeroDivisionError
            /\ InUnit(call.ret)
            /\ (r = None \/ j = None) => call.ret = Zero
            /\ (r # None /\ j # None /\ Val(r) >= Val(j)) => call.ret = One
            /\ (r # None /\ j # None /\ Val(r) < Val(j)) =>
                    call.ret[1] * Val(j) = Val(r) * call.ret[2]
            /\ (r = Some(5) /\ j = Some(3)) => call.ret = One
            /\ (r = Some(2) /\ j = Some(4)) => call.ret = Rat(1, 2)

\* C8 witness: 2 years against 4 required score 0.5
C8_Witness ==
    /\ call.op = "hard_match_experience"
    /\ call.resume_years = Some(2)
    /\ call.jd_years = Some(4)
    /\ call.ret = Rat(1, 2)

\* C8 witness of the other branch: no years required, none held, no division
C8_WitnessZeroRequired ==
    /\ call.op = "hard_match_experience"
    /\ call.resume_years = Some(0)
    /\ call.jd_years = Some(0)
    /\ call.ret = One

\* case-insensitively, a equals b, is a substring of b or a superstring of b
C9_Matches(a, b) ==
    \/ Lower(a) = Lower(b)
    \/ IsSubstring(Lower(a), Lower(b))
    \/ IsSubstring(Lower(b), Lower(a))

\* the requirement items no candidate item matches, in the order of the requirement list
C9_Missing(resume, jd) ==
    SelectSeq(jd, LAMBDA x : ~\E k \in 1..Len(resume) : C9_Matches(x, resume[k]))

\* C9: identify_missing_skills and identify_missing_education return exactly the
\* requirement items for which no candidate item is, case-insensitively, equal
\* to, a substring of or a superstring of the item, in the order of the
\* requirement list; [python, docker] against [python] gives [docker].
C9_MissingItems ==
    /\ call.op = "identify_missing_skills" =>
        /\ call.ret = C9_Missing(call.resume_skills, call.jd_skills)
        /\ (call.jd_skills = <<s_python, s_docker>> /\ call.resume_skills = <<s_python>>)
                => call.ret = <<s_docker>>
    /\ call.op = "identify_missing_education" =>
        call.ret = C9_Missing(call.resume_education, call.jd_education)

\* C9 witness: [python, docker] against [python] gives [docker]
C9_Witness ==
    /\ call.op = "identify_missing_skills"
    /\ call.jd_skills = <<s_python, s_docker>>
    /\ call.resume_skills = <<s_python>>
    /\ call.ret = <<s_docker>>

\* C10: the gap of the experience_analysis of check_experience_gap is
\* max(0, required_years - candidate_years), never negative, also when the
\* candidate exceeds the requirement.
C10_GapNonNegative ==
    call.op = "check_experience_gap" =>
        /\ call.ret.gap >= 0
        /\ (call.resume_years # None /\ call.jd_years # None) =>
                call.ret.gap = (IF Val(call.jd_years) - Val(call.resume_years) > 0
                                THEN Val(call.jd_years) - Val(call.resume_years) ELSE 0)

\* C11: when both years values are specified, meets_requirement returned by
\* check_experience_gap is true iff candidate_years >= required_years, and it
\* is false exactly when the message reports a shortfall ("Missing N years of
\* experience").
C11_MeetsRequirement ==
    (/\ call.op = "check_experience_gap"
     /\ call.resume_years # None /\ call.jd_years # None) =>
        /\ call.ret.meets_requirement = (Val(call.resume_years) >= Val(call.jd_years))
        /\ (~call.ret.meets_requirement) = (call.ret.message[1] = "Missing ")

\* C11 witness: the requirement is met exactly, and no shortfall is reported
C11_Witness ==
    /\ call.op = "check_experience_gap"
    /\ call.resume_years = Some(3) /\ call.jd_years = Some(3)
    /\ call.ret.meets_requirement
    /\ call.ret.message[1] # "Missing "

\* C11 witness: the candidate is short, and the shortfall is reported
C11_WitnessShort ==
    /\ call.op = "check_experience_gap"
    /\ call.resume_years = Some(3) /\ call.jd_years = Some(5)
    /\ ~call.ret.meets_requirement
    /\ call.ret.message = <<"Missing ", "2", " years of experience">>

\* C12 as stated: the message has one of three forms, chosen by whether the
\* required years is unspecified, met or exceeded (with the surplus
\* interpolated), or short (with the shortfall interpolated).
C12_ThreeForms ==
    (/\ call.op = "check_experience_gap"
     /\ (call.jd_years = None \/ call.resume_years # None)) =>
        call.ret.message =
            IF call.jd_years = None
            THEN <<"Experience requirements not specified">>
            ELSE IF Val(call.resume_years) >= Val(call.jd_years)
            THEN <<"Exceeds requirement by ",
                   str(Val(call.resume_years) - Val(call.jd_years)), " years">>
            ELSE <<"Missing ", str(Val(call.jd_years) - Val(call.resume_years)),
                   " years of experience">>

\* C12 amended: the message of check_experience_gap has one of four literal
\* forms: the unspecified form when either years value is unspecified, the
\* exact form when candidate = required, the surplus form with the exact
\* surplus when candidate > required, the shortfall form with the exact
\* shortfall when candidate < required.
C12_FourForms ==
    call.op = "check_experience_gap" =>
        call.ret.message =
            IF call.jd_years = None \/ call.resume_years = None
            THEN <<"Experience requirements not specified">>
            ELSE IF Val(call.resume_years) = Val(call.jd_years)
            THEN <<"Meets experience requirement exactly">>
            ELSE IF Val(call.resume_years) > Val(call.jd_years)
            THEN <<"Exceeds requirement by ",
                   str(Val(call.resume_years) - Val(call.jd_years)), " years">>
            ELSE <<"Missing ", str(Val(call.jd_years) - Val(call.resume_years)),
                   " years of experience">>

\* C12 witness: a surplus of 2 years is interpolated
C12_Witness ==
    /\ call.op = "check_experience_gap"
    /\ call.resume_years = Some(5) /\ call.jd_years = Some(3)
    /\ call.ret.message = <<"Exceeds requirement by ", "2", " years">>

\* the items with sep between two consecutive items, built left to right
C13_Joined(items, sep) ==
    LET F[i \in 0..Len(items)] ==
            IF i = 0 THEN <<>>
            ELSE F[i - 1] \o (IF i > 1 THEN <<sep>> ELSE <<>>) \o items[i]
    IN  F[Len(items)]

\* the gap clauses of a pair of profiles, in the order of the claim: the
\* missing-skills suggestion naming at most the first 3 missing skills, the
\* experience-gap message when the requirement is unmet, the
\* missing-education suggestion
C13_GapClauses(resume_data, jd_data) ==
    LET ms == C9_Missing(Get(resume_data, "skills", <<>>), Get(jd_data, "skills", <<>>))
        me == C9_Missing(Get(resume_data, "education", <<>>), Get(jd_data, "education", <<>>))
        ry == Get(resume_data, "experience_years", None)
        jy == Get(jd_data, "experience_years", None)
        unmet == ry # None /\ jy # None /\ Val(ry) < Val(jy)
        named == [i \in 1..(IF Len(ms) < 3 THEN Len(ms) ELSE 3) |-> ms[i]]
        candidates ==
            << <<ms # <<>>, <<"Consider adding these skills: ">> \o C13_Joined(named, ", ")>>,
               <<unmet, IF unmet THEN <<"Missing ", str(Val(jy) - Val(ry)),
                                        " years of experience">>
                        ELSE <<>> >>,
               <<me # <<>>, <<"Consider highlighting relevant education: ">>
                            \o C13_Joined(me, ", ")>> >>
        present == SelectSeq(candidates, LAMBDA c : c[1])
    IN  [i \in 1..Len(present) |-> present[i][2]]

\* the general remarks keyed off the score band, an optional extra clause
C13_Remarks ==
    {<<"Focus on aligning your skills and experience more closely with the job requirements">>,
     <<"Good match overall, but there's room for improvement in specific areas">>,
     <<"Strong match! Consider highlighting your most relevant achievements">>}

\* C13: the template feedback lists its clauses in the fixed order
\* missing-skills suggestion (at most the first 3 missing skills), experience-gap
\* message (only when the requirement is unmet), missing-education suggestion,
\* followed by the general remark of the score band; the clauses are joined
\* with ". " and the string ends with ".".
C13_TemplateFeedback ==
    call.op = "generate_basic_feedback" =>
        \E remark \in C13_Remarks :
            call.ret = C13_Joined(C13_GapClauses(call.resume_data, call.jd_data)
                                  \o <<remark>>, ". ") \o <<".">>

\* C13 witness: four skills are missing and three are named, the candidate is
\* 2 years short and the master's degree is missing
C13_Witness ==
    /\ call.op = "generate_basic_feedback"
    /\ call.resume_data = p_junior /\ call.jd_data = p_senior_jd
    /\ Len(identify_missing_skills(p_junior.skills, p_senior_jd.skills)) = 4
    /\ LET clauses == <<"Consider adding these skills: ">> \o s_docker \o <<", ">>
                       \o s_communication \o <<", ">> \o s_NodeJS
                       \o <<". ", "Missing ", "2", " years of experience", ". ",
                            "Consider highlighting relevant education: ">> \o e_master
                       \o <<". ">>
       IN  /\ SubSeq(call.ret, 1, Len(clauses)) = clauses
           /\ Len(call.ret) = Len(clauses) + 2
           /\ call.ret[Len(call.ret)] = "."

\* no gap clause applies to the pair: no missing skills, the experience
\* requirement met or unspecified, no missing education
C14_NoGapClause(resume_data, jd_data) ==
    /\ identify_missing_skills(Get(resume_data, "skills", <<>>),
                               Get(jd_data, "skills", <<>>)) = <<>>
    /\ identify_missing_education(Get(resume_data, "education", <<>>),
                                  Get(jd_data, "education", <<>>)) = <<>>
    /\ check_experience_gap(Get(resume_data, "experience_years", None),
                            Get(jd_data, "experience_years", None)).meets_requirement

\* C14: when no gap clause applies, the template feedback is a fixed
\* positive-match sentence (the one positive sentence of the template),
\* whatever the score is.
C14_FixedPositiveSentence ==
    (/\ call.op = "generate_basic_feedback"
     /\ C14_NoGapClause(call.resume_data, call.jd_data)) =>
        call.ret = <<"Strong match! Consider highlighting your most relevant achievements",
                     ".">>

\* C15: generate_llm_feedback never surfaces a failure of the external
\* generator: with no credential configured no request is sent, and when
\* building the prompt, the request or reading the response fails (or no
\* credential is configured) the call returns exactly what
\* _generate_basic_feedback returns for the same arguments.
C15_FallsBackToTemplate ==
    call.op = "generate_llm_feedback" =>
        /\ ~openai_api_key => call.requests = 0
        /\ (~openai_api_key \/ call.llm # "completed") =>
                call.ret = generate_basic_feedback(call.resume_data, call.jd_data, call.scores)
        /\ call.ret[Len(call.ret)] = "." \/ call.ret = llm_content

\* C15 witness: a credential is configured, the request was sent and the
\* response could not be read; the template feedback is returned
C15_Witness ==
    /\ call.op = "generate_llm_feedback"
    /\ openai_api_key
    /\ call.llm = "response_malformed"
    /\ call.requests = 1
    /\ call.resume_data = p_junior /\ call.jd_data = p_veteran
    /\ call.ret = generate_basic_feedback(p_junior, p_veteran, call.scores)

\* encoding the text failed during the call: the encoder raised on it, and the
\* cache, which holds every text encoded so far, does not hold it
C18_EncodingFailed(text) ==
    /\ ~IsBlank(text)
    /\ text \in call.failing
    /\ hash(text) \notin DOMAIN embeddings_cache

\* C18: soft_match_semantic returns a number, and returns 0.0, when the
\* embedding model is unavailable, when either text is empty or blank, or when
\* encoding either text fails.
C18_ZeroWithoutEmbedding ==
    call.op = "soft_match_semantic" =>
        /\ Len(call.ret) = 2 /\ call.ret[2] > 0
        /\ (\/ ~sentence_model
            \/ IsBlank(call.resume_text) \/ IsBlank(call.jd_text)
            \/ C18_EncodingFailed(call.resume_text)
            \/ C18_EncodingFailed(call.jd_text)) => call.ret = Zero

\* C18 witness: the model is loaded, the resume text is cached or encoded,
\* and encoding the requirement text fails
C18_Witness ==
    /\ call.op = "soft_match_semantic"
    /\ sentence_model
    /\ call.resume_text = t_python /\ call.jd_text = t_java
    /\ hash(t_python) \in DOMAIN embeddings_cache
    /\ C18_EncodingFailed(t_java)
    /\ call.ret = Zero

\* C18 witness: the model is loaded and the requirement text is blank
C18_WitnessBlank ==
    /\ call.op = "soft_match_semantic"
    /\ sentence_model
    /\ call.resume_text = t_python /\ call.jd_text = t_blank
    /\ call.ret = Zero

\* the optional key is absent from one of the two profiles of the call
C19_Absent(key) == key \notin DOMAIN call.resume_data \/ key \notin DOMAIN call.jd_data

\* C19: calculate_final_score and generate_comprehensive_analysis complete
\* when experience_years and/or sections are absent from either profile:
\* experience is treated as unspecified (the experience score is 0.0 in the
\* hard score, the experience analysis is the unspecified one) and sections as
\* empty (the section score is 0.0 in the soft score).
C19_MissingOptionalKeys ==
    /\ call.op = "calculate_final_score" =>
        LET r == call.resume_data
            j == call.jd_data
        IN  /\ DOMAIN call.ret = {"hard_match_score", "soft_match_score",
                                  "final_score", "relevance_percentage"}
            /\ C19_Absent("experience_years") =>
                    call.ret.hard_match_score =
                        RMin(RSum(<<RMul(Rat(4, 10), hard_match_skills(r.skills, j.skills)),
                                    RMul(Rat(2, 10),
                                         hard_match_education(r.education, j.education)),
                                    RMul(Rat(2, 10), Zero),
                                    RMul(Rat(2, 10),
                                         hard_match_keywords(r.cleaned_text, j.cleaned_text))>>),
                             One)
            /\ C19_Absent("sections") =>
                    call.ret.soft_match_score =
                        RAdd(RMul(Rat(7, 10), C5_Similarity(r.cleaned_text, j.cleaned_text)),
                             RMul(Rat(3, 10), Zero))
    /\ call.op = "generate_comprehensive_analysis" =>
        /\ "feedback" \in DOMAIN call.ret
        /\ C19_Absent("experience_years") =>
                call.ret.experience_analysis =
                    [gap |-> 0, meets_requirement |-> TRUE,
                     message |-> <<"Experience requirements not specified">>]

\* C19 witness: the resume has no experience_years, while the requirement
\* asks for 2 years; the experience score is 0 and the hard score 0.6
C19_Witness ==
    /\ call.op = "calculate_final_score"
    /\ call.resume_data = Without(BaseProfile, "experience_years")
    /\ call.jd_data = [BaseProfile EXCEPT !.experience_years = Some(2)]
    /\ call.ret.hard_match_score = Rat(6, 10)

\* C19 witness: the requirement has no sections
C19_WitnessSections ==
    /\ call.op = "calculate_final_score"
    /\ sentence_model
    /\ call.resume_data = [BaseProfile EXCEPT !.sections = [summary |-> t_python]]
    /\ call.jd_data = Without(BaseProfile, "sections")
    /\ call.failing = {}
    /\ call.ret.soft_match_score = Rat(7, 10)

\* C19 witness: the analysis of a resume without the two optional keys
C19_WitnessAnalysis ==
    /\ call.op = "generate_comprehensive_analysis"
    /\ call.resume_data = p_no_optional /\ call.jd_data = p_veteran
    /\ call.ret.experience_analysis.message = <<"Experience requirements not specified">>

\* the fields of a MatchResult
C20_Fields ==
    {"hard_match_score", "soft_match_score", "final_score", "relevance_score", "verdict",
     "missing_skills", "missing_education", "experience_analysis", "feedback",
     "strengths", "improvement_areas"}

\* C20: for every input pair, empty skill or education lists and unspecified
\* experience included, the result of generate_comprehensive_analysis has
\* every MatchResult field: hard_match_score, soft_match_score, final_score,
\* the relevance percentage, verdict, missing_skills, missing_education,
\* experience_analysis with gap, meets_requirement and message, feedback,
\* strengths and improvement_areas.
C20_AllFields ==
    call.op = "generate_comprehensive_analysis" =>
        /\ C20_Fields \subseteq DOMAIN call.ret
        /\ {"gap", "meets_requirement", "message"} \subseteq DOMAIN call.ret.experience_analysis

\* the pairs (resume position, jd position) of N resumes and M job
\* descriptions in resume-major order
C16_Pairs(N, M) == [k \in 1..(N * M) |-> <<((k - 1) \div M) + 1, ((k - 1) % M) + 1>>]

\* C16: in run_matching over N resumes and M job descriptions a failure while
\* scoring or saving a pair does not abort the loop: every pair is attempted
\* exactly once, in resume-major order, the pairs that did not fail each have
\* their result and their row, in that order, and if exactly one pair fails
\* the returned list has N*M - 1 results.
C16_BatchContinuesAfterFailure ==
    call.op = "run_matching" =>
        LET N == Len(call.resume_processed)
            M == Len(call.jd_processed)
            pairs == C16_Pairs(N, M)
            succeeded == SelectSeq(pairs, LAMBDA pair : pair \notin call.failed)
            results == call.ret.results
        IN  /\ call.log = [k \in 1..(N * M) |->
                                <<call.resume_processed[pairs[k][1]].file_name,
                                  call.jd_processed[pairs[k][2]].file_name>>]
            /\ Len(results) = N * M - Cardinality(call.failed)
            /\ Cardinality(call.failed) = 1 => Len(results) = N * M - 1
            /\ Len(results) = Len(succeeded)
            /\ \A k \in 1..Len(results) :
                    /\ results[k].resume_name = call.resume_processed[succeeded[k][1]].file_name
                    /\ results[k].jd_name = call.jd_processed[succeeded[k][2]].file_name
            /\ Len(matching_results) = Len(succeeded)
            /\ \A k \in 1..Len(matching_results) :
                    /\ matching_results[k].resume_id = call.resume_processed[succeeded[k][1]].id
                    /\ matching_results[k].jd_id = call.jd_processed[succeeded[k][2]].id
                    /\ results[k].result_id = matching_results[k].id

\* C16 witness: 2 resumes and 2 job descriptions, saving the second pair
\* fails, and the two pairs after it are matched: 3 results
C16_Witness ==
    /\ call.op = "run_matching"
    /\ Len(call.resume_processed) = 2 /\ Len(call.jd_processed) = 2
    /\ call.failed = {<<1, 2>>} /\ call.raises = "save"
    /\ Len(call.ret.results) = 3
    /\ call.ret.results[3].resume_name = <<"resume_", "2", ".pdf">>
    /\ call.ret.results[3].jd_name = <<"jd_", "2", ".pdf">>

\* C17: the batch operation returns to its caller, with the partial result
\* list, a count of the failed pairs, and successes + failures = N*M.
C17_FailureCountReturned ==
    call.op = "run_matching" =>
        /\ "results" \in DOMAIN call.ret
        /\ \E key \in DOMAIN call.ret \ {"results"} :
                Len(call.ret.results) + call.ret[key]
                    = Len(call.resume_processed) * Len(call.jd_processed)

-----------------------------------------------------------------------------
(* Claims C21..C30 *)

\* C21: every relevance_score handed to save_matching_result is the 0-1
\* decimal: the rows run_matching of main.py persists hold a value between
\* 0 and 1, the percentage being produced at the display boundary only.
C21_PersistedDecimal ==
    \A i \in DOMAIN matching_results :
        /\ RLe(Zero, matching_results[i].relevance_score)
        /\ RLe(matching_results[i].relevance_score, One)

\* the sections of {experience, skills, education} that are keys of both maps
C24_Common(resume_sections, jd_sections) ==
    {"experience", "skills", "education"} \cap DOMAIN resume_sections \cap DOMAIN jd_sections

\* C24: soft_match_sections returns the arithmetic mean of the semantic
\* similarities of exactly the sections among experience, skills and education
\* that are keys of both maps, and 0.0 when the maps have no such section or
\* either map is empty.
C24_SectionMean ==
    call.op = "soft_match_sections" =>
        LET common == C24_Common(call.resume_sections, call.jd_sections)
            order == <<"experience", "skills", "education">>
            sims == [i \in 1..3 |->
                        IF order[i] \in common
                        THEN C5_Similarity(call.resume_sections[order[i]],
                                           call.jd_sections[order[i]])
                        ELSE Zero]
        IN  /\ common # {} =>
                call.ret = RMul(RSum(sims), Rat(1, Cardinality(common)))
            /\ common = {} => call.ret = Zero
            /\ (call.resume_sections = EmptyDict \/ call.jd_sections = EmptyDict) =>
                call.ret = Zero

\* C24 witness: two common sections, experience with similarity 0.6 and skills
\* with a blank text (similarity 0): the mean is 0.3
C24_Witness ==
    /\ call.op = "soft_match_sections"
    /\ call.resume_sections = [experience |-> t_python, skills |-> t_java]
    /\ call.jd_sections = [experience |-> t_java, skills |-> t_blank]
    /\ call.failing = {}
    /\ call.ret = Rat(3, 10)

\* C24 witness: two maps with sections but none in common give 0.0
C24_WitnessDisjoint ==
    /\ call.op = "soft_match_sections"
    /\ call.resume_sections = [summary |-> t_python]
    /\ call.jd_sections = [skills |-> t_chef, education |-> t_java]
    /\ call.ret = Zero

\* the fraction of the distinct required items that the candidate has
C26_Overlap(have, required) ==
    LET distinct == {required[i] : i \in DOMAIN required}
        matched == {x \in distinct : \E i \in DOMAIN have : have[i] = x}
    IN  IF distinct = {} THEN Zero ELSE Rat(Cardinality(matched), Cardinality(distinct))

\* the required years are unspecified (absent or None) or 0
C26_NoRequirement(jd_data) ==
    \/ "experience_years" \notin DOMAIN jd_data
    \/ jd_data.experience_years = None
    \/ jd_data.experience_years = Some(0)

\* the candidate's years, 0 when unspecified
C26_CandidateYears(resume_data) ==
    IF "experience_years" \in DOMAIN resume_data /\ resume_data.experience_years # None
    THEN Val(resume_data.experience_years)
    ELSE 0

\* the experience score: neutral without a requirement, else the fraction of
\* the required years the candidate has, at most 1
C26_ExperienceScore(resume_data, jd_data) ==
    IF C26_NoRequirement(jd_data) THEN Rat(1, 2)
    ELSE RMin(Rat(C26_CandidateYears(resume_data), Val(jd_data.experience_years)), One)

\* 0.4 skills + 0.2 education + 0.2 experience + 0.2 keywords
C26_FinalScore(resume_data, jd_data) ==
    RSum(<<RMul(Rat(4, 10), C26_Overlap(resume_data.skills, jd_data.skills)),
           RMul(Rat(2, 10), C26_Overlap(resume_data.education, jd_data.education)),
           RMul(Rat(2, 10), C26_ExperienceScore(resume_data, jd_data)),
           RMul(Rat(2, 10), C26_Overlap(resume_data.cleaned_text, jd_data.cleaned_text))>>)

\* C26: simple_matching (both copies) gives High iff final_score >= 0.7, Medium
\* iff 0.4 <= final_score < 0.7 and Low otherwise, the final score counting
\* experience as 0.5 whenever the required years are unspecified or 0, whatever
\* the candidate's years; the final score and the relevance_score returned
\* (the final score rounded to 3 decimals) stay in [0,1].
C26_SimpleVerdict ==
    call.op \in {"simple_matching", "SimpleResumeRelevancePipeline.simple_matching"} =>
        LET final_score == C26_FinalScore(call.resume_data, call.jd_data)
            error == RAdd(call.ret.relevance_score, RMul(Rat(-1, 1), final_score))
        IN  /\ call.ret.verdict = "High" <=> RLe(Rat(7, 10), final_score)
            /\ call.ret.verdict = "Medium" <=>
                    RLe(Rat(4, 10), final_score) /\ RLt(final_score, Rat(7, 10))
            /\ call.ret.verdict = "Low" <=> RLt(final_score, Rat(4, 10))
            /\ RLe(Zero, final_score) /\ RLe(final_score, One)
            /\ RLe(Rat(-1, 2000), error) /\ RLe(error, Rat(1, 2000))
            /\ 1000 % call.ret.relevance_score[2] = 0     \* a multiple of 0.001
            /\ RLe(Zero, call.ret.relevance_score) /\ RLe(call.ret.relevance_score, One)

\* C26 witness: no required years, a candidate with MaxYears years, all skills
\* and education matched and no word in common: 0.4 + 0.2 + 0.2 * 0.5 = 0.7, High
C26_Witness ==
    /\ call.op = "simple_matching"
    /\ Get(call.jd_data, "experience_years", Some(0)) = None
    /\ Get(call.resume_data, "experience_years", Some(0)) = Some(MaxYears)
    /\ call.ret.relevance_score = Rat(7, 10)
    /\ call.ret.verdict = "High"

\* C26 witness: 0.4 * 1/3 + 0.2 * 2/5 + 0.2 * 1/2 = 0.31333..., rounded to 0.313, Low
C26_WitnessRounded ==
    /\ call.op = "SimpleResumeRelevancePipeline.simple_matching"
    /\ call.ret.relevance_score = Rat(313, 1000)
    /\ call.ret.hard_match_score = Rat(333, 1000)
    /\ call.ret.verdict = "Low"

\* the sum of the values of a weight set
C25_Total(w) ==
    LET keys == CHOOSE l \in [1..Cardinality(DOMAIN w) -> DOMAIN w] :
                    \A k \in DOMAIN w : \E i \in DOMAIN l : l[i] = k
    IN  RSum([i \in DOMAIN keys |-> w[keys[i]]])

\* C25: every weight set of a weighted sum sums to 1.0 (hard match
\* 0.4/0.2/0.2/0.2, soft match 0.7/0.3, final 0.6/0.4, simplified matcher
\* 0.4/0.2/0.2/0.2), so a final score lies between the hard and the soft score
\* it combines, and the classifier thresholds are strictly ordered
\* high > medium > low floor.
C25_WeightsSumToOne ==
    /\ weights = [skills |-> Rat(4, 10), education |-> Rat(2, 10),
                  experience |-> Rat(2, 10), keywords |-> Rat(2, 10)]
    /\ C25_Total(weights) = One
    /\ soft_weights = [overall |-> Rat(7, 10), section |-> Rat(3, 10)]
    /\ C25_Total(soft_weights) = One
    /\ final_weights = [hard |-> Rat(6, 10), soft |-> Rat(4, 10)]
    /\ C25_Total(final_weights) = One
    /\ simple_weights = [skill |-> Rat(4, 10), education |-> Rat(2, 10),
                         experience |-> Rat(2, 10), keyword |-> Rat(2, 10)]
    /\ C25_Total(simple_weights) = One
    /\ RLt(thresholds.medium, thresholds.high) /\ RLt(thresholds.low, thresholds.medium)
    /\ RLt(simple_thresholds.medium, simple_thresholds.high)
    /\ RLt(Zero, simple_thresholds.medium)
    /\ call.op = "calculate_final_score" =>
            LET lo == RMin(call.ret.hard_match_score, call.ret.soft_match_score)
                hi == IF lo = call.ret.hard_match_score THEN call.ret.soft_match_score
                      ELSE call.ret.hard_match_score
            IN  RLe(lo, call.ret.final_score) /\ RLe(call.ret.final_score, hi)

\* C25 witness: a hard score 0.6 and a soft score 1.0 combined into 0.76
C25_Witness ==
    /\ call.op = "calculate_final_score"
    /\ call.ret.hard_match_score = Rat(6, 10)
    /\ call.ret.soft_match_score = One
    /\ call.ret.final_score = Rat(76, 100)

\* the two results agree on the fields compared, the missing lists as sets
C27_Agree(a, b) ==
    /\ a.relevance_score = b.relevance_score
    /\ a.verdict = b.verdict
    /\ a.hard_match_score = b.hard_match_score
    /\ a.soft_match_score = b.soft_match_score
    /\ a.experience_analysis = b.experience_analysis
    /\ set(a.missing_skills) = set(b.missing_skills)
    /\ set(a.missing_education) = set(b.missing_education)

\* C27: for every pair of profiles, whatever the order in which each copy
\* enumerates its sets, api.simple_matching and
\* SimpleResumeRelevancePipeline.simple_matching return the same
\* relevance_score, verdict, hard_match_score, soft_match_score and
\* experience_analysis and the same sets of missing skills and education.
C27_CopiesEquivalent ==
    /\ call.op = "simple_matching" =>
        \A list \in ListOrders(call.resume_data, call.jd_data) :
            C27_Agree(call.ret, SimpleResumeRelevancePipeline_simple_matching(
                                    call.resume_data, call.jd_data, list))
    /\ call.op = "SimpleResumeRelevancePipeline.simple_matching" =>
        \A list \in ListOrders(call.resume_data, call.jd_data) :
            C27_Agree(call.ret, simple_matching(call.resume_data, call.jd_data, list))

\* C27 witness: api.simple_matching returned two missing skills in one order,
\* a Medium verdict and a shortfall of years
C27_Witness ==
    /\ call.op = "simple_matching"
    /\ call.ret.missing_skills = <<s_node, s_docker>>
    /\ call.ret.missing_education = <<e_bachelor>>
    /\ call.ret.verdict = "Low"
    /\ call.ret.experience_analysis.gap > 0
    /\ call.ret.soft_match_score = Rat(1, 2)

\* C22: over any sequence of get_embedding calls on one FeatureEngineer the
\* encoder has returned at most once for each text: the cache holds exactly
\* the texts encoded, under their hash, with their embedding; a call on a
\* cached text returns the cached embedding; blank texts and failed encodings
\* add no entry.
C22_EncodedAtMostOnce ==
    /\ \A text \in Texts : encoder_calls[text] <= 1
    /\ encoder_calls[t_blank] = 0
    /\ DOMAIN embeddings_cache = {hash(text) : text \in {t \in Texts : encoder_calls[t] = 1}}
    /\ \A text \in Texts :
            encoder_calls[text] = 1 => embeddings_cache[hash(text)] = Encode(text)
    /\ (call.op = "get_embedding" /\ call.cached) => call.ret = Encode(call.text)
    /\ (call.op = "get_embedding" /\ call.ret = None /\ ~IsBlank(call.text)) =>
            (sentence_model => hash(call.text) \notin DOMAIN embeddings_cache)

\* C22 witness: a text already encoded is asked for again, while the encoder
\* would fail on it, and its cached embedding is returned
C22_Witness ==
    /\ call.op = "get_embedding"
    /\ call.text = t_java
    /\ call.cached
    /\ call.failing = {t_java}
    /\ call.ret = Encode(t_java)
    /\ encoder_calls[t_java] = 1
    /\ hash(t_python) \notin DOMAIN embeddings_cache

\* C23: while get_embedding calls of several contexts interleave, every key
\* of the cache maps to the embedding of the text with that hash; an embedding
\* the encoder returned is in the cache unless its insert is still to come;
\* a finished call has the embedding of its own text (None when the model is
\* missing, the text blank or the encoder raised); and the encoder returns at
\* most once per context for a text.
C23_CacheNeverCorrupted ==
    /\ \A k \in DOMAIN embeddings_cache :
            \E text \in Texts \ {t_blank} :
                hash(text) = k /\ embeddings_cache[k] = Encode(text)
    /\ \A text \in Texts :
            encoder_calls[text] > 0 =>
                \/ hash(text) \in DOMAIN embeddings_cache
                \/ \E c \in DOMAIN contexts :
                        contexts[c].pc = "insert" /\ contexts[c].text = text
    /\ \A c \in DOMAIN contexts :
            contexts[c].pc = "done" =>
                contexts[c].ret =
                    IF ~sentence_model \/ IsBlank(contexts[c].text) \/ contexts[c].raised
                    THEN None
                    ELSE Encode(contexts[c].text)
    /\ \A text \in Texts : encoder_calls[text] <= Len(contexts)

\* C23 witness: two contexts raced on one text, both encoded it, both inserts
\* are done and both calls have the embedding
C23_Witness ==
    /\ Len(contexts) >= 2
    /\ encoder_calls[t_python] = 2
    /\ contexts[1] = [pc |-> "done", text |-> t_python, embedding |-> Encode(t_python),
                      ret |-> Encode(t_python), raised |-> FALSE]
    /\ contexts[2] = contexts[1]
    /\ embeddings_cache[hash(t_python)] = Encode(t_python)

\* C28: an upload of a file from which no text is extracted is answered with
\* status 400 and detail "No text extracted from the file", and no row is saved.
C28_BlankUploadAnswers400 ==
    (call.op \in {"upload_resume", "upload_job_description"} /\ IsBlank(call.file.text)) =>
        /\ call.response.status_code = 400
        /\ call.response.detail = <<"No text extracted from the file">>

\* the row with this id is in the table
C29_Exists(rows, id) == \E i \in DOMAIN rows : rows[i].id = id

\* a step of match_resume_jd: without the resume or the job description the
\* answer is a 404 carrying no analysis and the table is left as it was; the
\* table changes only by one row added for the pair, both of which exist
C29_MatchStep ==
    (call'.op = "match_resume_jd" /\ call' # call) =>
        LET both == /\ C29_Exists(resumes, call'.resume_id)
                    /\ C29_Exists(job_descriptions, call'.jd_id)
        IN  /\ ~both =>
                /\ call'.response.status_code = 404
                /\ DOMAIN call'.response = {"status_code", "detail"}
                /\ matching_results' = matching_results
            /\ matching_results' # matching_results =>
                /\ both
                /\ Len(matching_results') = Len(matching_results) + 1
                /\ SubSeq(matching_results', 1, Len(matching_results)) = matching_results
                /\ matching_results'[Len(matching_results')].resume_id = call'.resume_id
                /\ matching_results'[Len(matching_results')].jd_id = call'.jd_id

\* C29: match_resume_jd answers 404 when the resume id or the job description
\* id is not in the database, computes no match and leaves the stored matching
\* results unchanged; a result is saved only for a pair whose resume and job
\* description both exist at the time of the call.
C29_MatchOnlyExistingPairs == [][C29_MatchStep]_vars

\* C29 witness: a stored resume matched with a job description that is not
\* stored, while a result of an earlier match is in the table
C29_Witness ==
    /\ call.op = "match_resume_jd"
    /\ call.response = HTTPException(404, <<"Job description not found">>)
    /\ C29_Exists(resumes, call.resume_id)
    /\ ~C29_Exists(job_descriptions, call.jd_id)
    /\ job_descriptions # <<>>
    /\ matching_results # <<>>

\* every stored matching result references a stored resume and job description
C30_ReferencesExist ==
    \A i \in DOMAIN matching_results :
        /\ \E r \in DOMAIN resumes : resumes[r].id = matching_results[i].resume_id
        /\ \E j \in DOMAIN job_descriptions :
                job_descriptions[j].id = matching_results[i].jd_id

\* a delete that succeeded removed the row and the results referencing it and
\* nothing else
C30_DeleteStep ==
    /\ (call'.op = "delete_resume" /\ call' # call /\ call'.response.status_code = 200) =>
        /\ \A i \in DOMAIN matching_results' :
                matching_results'[i].resume_id # call'.resume_id
        /\ matching_results' =
                SelectSeq(matching_results, LAMBDA row : row.resume_id # call'.resume_id)
        /\ resumes' = SelectSeq(resumes, LAMBDA row : row.id # call'.resume_id)
        /\ job_descriptions' = job_descriptions
    /\ (call'.op = "delete_job_description" /\ call' # call
            /\ call'.response.status_code = 200) =>
        /\ \A i \in DOMAIN matching_results' :
                matching_results'[i].jd_id # call'.jd_id
        /\ matching_results' =
                SelectSeq(matching_results, LAMBDA row : row.jd_id # call'.jd_id)
        /\ job_descriptions' = SelectSeq(job_descriptions, LAMBDA row : row.id # call'.jd_id)
        /\ resumes' = resumes

====
